---- MODULE Spec2Model ----
(***************************************************************************)
(* Guardian: session enforcement of the Plex access-control daemon.        *)
(*                                                                         *)
(* The model follows SessionTerminationService (stopUnapprovedSessions,    *)
(* handleConcurrentStreamLimits, filterCountableSessions,                  *)
(* getSessionStartTimes, shouldStopSession, validateIPAccess),             *)
(* ConcurrentStreamService.getEffectiveLimit, isPlexampSession and         *)
(* SessionOrchestratorService.orchestrateSessionUpdate.                    *)
(***************************************************************************)
EXTENDS Integers, Sequences, FiniteSets, TLC

(***************************************************************************)
(* Bounds of the model.                                                    *)
(***************************************************************************)
\* number of ticks of the poll loop that are explored
MaxTicks == 2
\* largest concurrent-stream limit an administrator configures
MaxLimit == 2

(***************************************************************************)
(* Universe of values.                                                     *)
(***************************************************************************)
\* playbacks the upstream server may report (Session.id / sessionKey pairs)
SessionIds == {"s1", "s2", "s3"}
UserIds == {"u1", "u2"}
NoUser == "no-user"
NoMachine == "no-machine"
NoAddress == "no-address"
\* a limit column holding SQL NULL
NullLimit == -1
\* the JavaScript value undefined where a limit is expected
UndefinedLimit == -2
\* temporaryAccessUntil holding SQL NULL
NoTime == 0
\* a private (LAN) and a public (WAN) client address
LanAddress == "192.168.1.10"
WanAddress == "203.0.113.5"
\* a tick's history rows are stamped at the instant the tick starts; a later
\* read of the clock inside the same tick (Date.now()) falls on that instant
\* or on a later one, before the next tick starts
SubInstants == {0, 1}
\* reads that can raise an error while one session is evaluated: the device
\* row, the user preference, the time rules, the settings
FaultKinds == {"none", "device", "preference", "timeRules", "setting"}

VARIABLES
  now,              \* wall clock at the start of the last tick
  sess,             \* upstream server: the attributes of each playback
  devices,          \* table user_devices, keyed by machine identifier
  prefs,            \* table user_preferences, keyed by user id
  settings,         \* table settings
  timeRules,        \* table user_time_rules
  history,          \* table session_history: startedAt per session key
  snapshot,         \* sessionsData.MediaContainer.Metadata of the last tick
  calls,            \* upstream terminate calls and emitted events of the last tick, in order
  capSelected,      \* sessions the cap loop picked in the last tick
  stoppedSessions,  \* SessionTerminationResult.stoppedSessions of the last tick
  ticks,            \* number of ticks run so far
  steps,            \* steps the last tick started, in order, with their outcome
  outcome,          \* how the entry point of the last tick ended
  readFault,        \* per playback, the read that raises an error while the
                    \* per-session pass evaluates it
  capFault,         \* users for whom a read of the cap check raises an error
  requests,         \* table user_devices: the note columns of each device
  portalSettings,   \* table settings: the settings of the user portal
  portalCalls,      \* requestDeviceApproval calls: arguments and position
  streamBlockedCallbacks,  \* callbacks registered with onStreamBlocked, in order
  throwing,         \* callbacks that throw when they are called
  adminUsers,       \* table admin_users
  authSessions,     \* table sessions (authentication)
  adminCalls,       \* create-admin requests: arguments and position
  response,         \* outcome of the last HTTP request
  serverIdentifierCache,    \* PlexService.serverIdentifierCache
  serverIdentifierPromise,  \* PlexService.serverIdentifierPromise: the
                            \* upstream request it waits for, or none
  identityRequests, \* the upstream identity requests issued so far
  identifierCalls   \* getServerIdentifier calls: position and result

vars == <<now, sess, devices, prefs, settings, timeRules, history,
          snapshot, calls, capSelected, stoppedSessions, ticks,
          steps, outcome, readFault, serverIdentifierCache,
              serverIdentifierPromise, identityRequests,
              identifierCalls, capFault,
          requests, portalSettings, portalCalls,
          streamBlockedCallbacks, throwing,
          adminUsers, authSessions, adminCalls, response>>

(***************************************************************************)
(* Sequence helpers.                                                       *)
(***************************************************************************)
Range(seq) == {seq[i] : i \in 1..Len(seq)}

RECURSIVE SeqSelect(_, _)
\* Array.prototype.filter with a membership test
SeqSelect(seq, keep) ==
  IF seq = <<>> THEN <<>>
  ELSE IF Head(seq) \in keep
       THEN <<Head(seq)>> \o SeqSelect(Tail(seq), keep)
       ELSE SeqSelect(Tail(seq), keep)

\* all orderings of all subsets of S
OrderedSubsets(S) ==
  UNION {{q \in [1..Cardinality(T) -> T] : Range(q) = T} : T \in SUBSET S}

(***************************************************************************)
(* plex.types.ts                                                           *)
(***************************************************************************)
\* a product test that recognises no playback
isPlexampSession_never(s) == FALSE

\* isPlexampSession: exact comparison of Player.product with 'Plexamp'
isPlexampSession(s) == sess[s].product = "Plexamp"

(***************************************************************************)
(* Collaborators of the termination service.                               *)
(***************************************************************************)
NoDeviceRow == [exists |-> FALSE, userId |-> NoUser, status |-> "pending",
                excludeFromConcurrentLimit |-> FALSE,
                temporaryAccessUntil |-> NoTime,
                temporaryAccessBypassPolicies |-> FALSE]

\* userDeviceRepository.findOne({ where: { userId, deviceIdentifier } })
findDevice(userId, deviceIdentifier) ==
  IF deviceIdentifier \in DOMAIN devices
     /\ devices[deviceIdentifier].exists
     /\ devices[deviceIdentifier].userId = userId
  THEN devices[deviceIdentifier]
  ELSE NoDeviceRow

\* DeviceTrackingService.isTemporaryAccessValid: the grant is active iff
\* until exists and until > now; at is the value of the clock
isTemporaryAccessValid(device, at) ==
  /\ device.temporaryAccessUntil # NoTime
  /\ device.temporaryAccessUntil > at

\* UsersService.getEffectiveDefaultBlock: user.default_block ?? global
getEffectiveDefaultBlock(userId) ==
  IF prefs[userId].exists /\ prefs[userId].defaultBlock # "null"
  THEN prefs[userId].defaultBlock = "true"
  ELSE settings.PLEX_GUARD_DEFAULT_BLOCK

\* rules of the table that apply to a device: device-specific enabled rules
\* take precedence over user-wide enabled rules
ApplicableRules(userId, deviceIdentifier) ==
  LET enabled == {r \in timeRules : r.enabled /\ r.userId = userId}
      specific == {r \in enabled : r.deviceIdentifier = deviceIdentifier}
  IN IF specific # {} THEN specific
     ELSE {r \in enabled : r.deviceIdentifier = NoMachine}

\* TimePolicyService.isTimeScheduleAllowed: blocked inside [start, end)
isTimeScheduleAllowed(userId, deviceIdentifier, at) ==
  \A r \in ApplicableRules(userId, deviceIdentifier) :
    ~(r.startTime <= at /\ at < r.endTime)

\* location of a source address: lan for private addresses, wan otherwise
IsPrivateIP(address) == address = LanAddress

AllowedIP == [allowed |-> TRUE, reason |-> "", stopCode |-> ""]

\* IPValidationService.validateIPAccess: network policy, then allow-list
ipValidationService(clientIP, pref) ==
  IF pref.networkPolicy = "lan" /\ ~IsPrivateIP(clientIP)
  THEN [allowed |-> FALSE, reason |-> "MSG_IP_LAN_ONLY", stopCode |-> "LAN_ONLY"]
  ELSE IF pref.networkPolicy = "wan" /\ IsPrivateIP(clientIP)
  THEN [allowed |-> FALSE, reason |-> "MSG_IP_WAN_ONLY", stopCode |-> "WAN_ONLY"]
  ELSE IF pref.ipAccessPolicy = "restricted" /\ clientIP \notin pref.allowedIPs
  THEN [allowed |-> FALSE, reason |-> "MSG_IP_NOT_ALLOWED", stopCode |-> "IP_NOT_ALLOWED"]
  ELSE AllowedIP

(***************************************************************************)
(* SessionTerminationService: per-session policy.                          *)
(***************************************************************************)
\* validateIPAccess(session) when the read named by fault raises an error:
\* the catch block of the function answers { allowed: true }
validateIPAccessWith(s, fault) ==
  IF sess[s].userId = NoUser THEN AllowedIP
  ELSE IF sess[s].address = NoAddress
  THEN [allowed |-> FALSE, reason |-> "Invalid or missing client IP address from Plex", stopCode |-> ""]
  ELSE IF fault = "preference" THEN AllowedIP
  ELSE IF ~prefs[sess[s].userId].exists THEN AllowedIP
  ELSE IF fault = "setting" THEN AllowedIP
  ELSE ipValidationService(sess[s].address, prefs[sess[s].userId])

\* validateIPAccess(session)
validateIPAccess(s) == validateIPAccessWith(s, readFault[s])

Allow == [shouldStop |-> FALSE, reason |-> "", stopCode |-> ""]
Stop(reason, stopCode) ==
  [shouldStop |-> TRUE, reason |-> reason, stopCode |-> stopCode]

\* a block decision whose reason text is read from the settings: when that
\* read raises an error the catch block of shouldStopSession answers allow
StopWithMessage(reason, stopCode, fault) ==
  IF fault = "setting" THEN Allow ELSE Stop(reason, stopCode)

\* shouldStopSession(session, true) when the read named by fault raises an
\* error: an error outside validateIPAccess reaches the catch block of the
\* function, which answers { shouldStop: false }
shouldStopSessionWith(s, at, fault) ==
  LET userId == sess[s].userId
      deviceIdentifier == sess[s].machineIdentifier
      device == findDevice(userId, deviceIdentifier)
      ipValidation == validateIPAccessWith(s, fault)
  IN IF userId = NoUser \/ deviceIdentifier = NoMachine THEN Allow
     ELSE IF isPlexampSession(s) THEN Allow
     ELSE IF fault = "device" THEN Allow
     ELSE IF /\ device.exists
             /\ isTemporaryAccessValid(device, at)
             /\ device.temporaryAccessBypassPolicies
     THEN Allow
     ELSE IF ~ipValidation.allowed
     THEN Stop(ipValidation.reason, ipValidation.stopCode)
     ELSE IF fault = "timeRules" THEN Allow
     ELSE IF ~isTimeScheduleAllowed(userId, deviceIdentifier, at)
     THEN StopWithMessage("MSG_TIME_RESTRICTED", "TIME_RESTRICTED", fault)
     ELSE IF ~device.exists \/ device.status = "pending"
     THEN IF device.exists /\ isTemporaryAccessValid(device, at) THEN Allow
          ELSE IF fault = "preference" THEN Allow
          ELSE IF getEffectiveDefaultBlock(userId)
               THEN StopWithMessage("MSG_DEVICE_PENDING", "DEVICE_PENDING",
                                    fault)
               ELSE Allow
     ELSE IF device.status = "rejected"
     THEN IF isTemporaryAccessValid(device, at) THEN Allow
          ELSE StopWithMessage("MSG_DEVICE_REJECTED", "DEVICE_REJECTED", fault)
     ELSE Allow

\* shouldStopSession(session, skipConcurrentCheck = true)
shouldStopSession(s, at) == shouldStopSessionWith(s, at, readFault[s])

(***************************************************************************)
(* ConcurrentStreamService                                                 *)
(***************************************************************************)
\* a limit that is always the global setting
getEffectiveLimit_global(userId) == settings.CONCURRENT_STREAM_LIMIT

\* getEffectiveLimit(userId): per-user override, else the global setting
getEffectiveLimit(userId) ==
  IF prefs[userId].exists /\ prefs[userId].concurrentStreamLimit # NullLimit
  THEN prefs[userId].concurrentStreamLimit
  ELSE settings.CONCURRENT_STREAM_LIMIT

(***************************************************************************)
(* SessionTerminationService: concurrent-stream cap.                       *)
(***************************************************************************)
\* a filter that looks at neither the exclusion flag nor temporary access
CountableSession_all(userId, s, at) == sess[s].machineIdentifier # NoMachine

\* the test of the loop body of filterCountableSessions(userId, sessions)
CountableSession(userId, s, at) ==
  LET deviceIdentifier == sess[s].machineIdentifier
      device == findDevice(userId, deviceIdentifier)
  IN /\ deviceIdentifier # NoMachine
     /\ ~device.excludeFromConcurrentLimit
     /\ ~(/\ ~settings.CONCURRENT_LIMIT_INCLUDE_TEMP_ACCESS
          /\ device.exists
          /\ isTemporaryAccessValid(device, at))

\* filterCountableSessions(userId, sessions)
filterCountableSessions(userId, sessions, at) ==
  SeqSelect(sessions,
            {s \in Range(sessions) : CountableSession(userId, s, at)})

\* getSessionStartTimes(sessions): startedAt of the history row, Date.now()
\* when there is none; hist is the history table, at the instant the tick
\* started and reads[s] the sub-instant of the clock read for s
getSessionStartTimes(sessions, hist, at, reads) ==
  [i \in 1..Len(sessions) |->
     [session |-> sessions[i],
      startTime |-> IF hist[sessions[i]] # NoTime
                    THEN hist[sessions[i]]
                    ELSE at + reads[sessions[i]]]]

RECURSIVE InsertDesc(_, _)
\* x goes after every element that is not older than x
InsertDesc(x, sorted) ==
  IF sorted = <<>> THEN <<x>>
  ELSE IF Head(sorted).startTime >= x.startTime
       THEN <<Head(sorted)>> \o InsertDesc(x, Tail(sorted))
       ELSE <<x>> \o sorted

RECURSIVE SortNewestFirst(_)
\* sessionsWithTimes.sort((a, b) => b.startTime - a.startTime): a stable
\* sort, elements of equal start time keep their order
SortNewestFirst(seq) ==
  IF seq = <<>> THEN <<>>
  ELSE InsertDesc(seq[Len(seq)], SortNewestFirst(SubSeq(seq, 1, Len(seq) - 1)))

\* a count that keeps one session too few
toTerminate_offByOne(sortedLen, limit) == sortedLen - limit + 1

\* toTerminate = sessionsWithTimes.length - limit
toTerminate(sortedLen, limit) == sortedLen - limit

\* the sessions the loop `for (i = 0; i < toTerminate; i++)` visits for one
\* user, newest first; empty when the user is unlimited or within the limit
CapPicked(userId, userSessions, hist, at, reads) ==
  LET limit == getEffectiveLimit(userId)
      countableSessions == filterCountableSessions(userId, userSessions, at)
      sessionsWithTimes ==
        SortNewestFirst(
          getSessionStartTimes(countableSessions, hist, at, reads))
  IN IF limit = 0 \/ Len(countableSessions) <= limit THEN <<>>
     ELSE [i \in 1..toTerminate(Len(sessionsWithTimes), limit) |->
             sessionsWithTimes[i].session]

TerminateCall(s, reason, ok) ==
  [op |-> "terminate", session |-> s, reason |-> reason, stopCode |-> "",
   ok |-> ok]
StreamBlockedEvent(s, stopCode) ==
  [op |-> "emit", session |-> s, reason |-> "", stopCode |-> stopCode,
   ok |-> TRUE]

\* the call of one registered callback with the event
Delivery(callback, s, stopCode) ==
  [op |-> "deliver", session |-> s, reason |-> "", stopCode |-> stopCode,
   ok |-> callback \notin throwing, callback |-> callback]

RECURSIVE DeliverTo_abort(_, _, _)
\* a loop that the first throwing callback ends
DeliverTo_abort(callbacks, s, stopCode) ==
  IF callbacks = <<>> THEN <<>>
  ELSE IF Head(callbacks) \in throwing
  THEN <<Delivery(Head(callbacks), s, stopCode)>>
  ELSE <<Delivery(Head(callbacks), s, stopCode)>>
       \o DeliverTo_abort(Tail(callbacks), s, stopCode)

RECURSIVE DeliverTo(_, _, _)
\* the loop of emitStreamBlockedEvent: each callback is called inside its
\* own try/catch, so the loop goes on after a callback that throws
DeliverTo(callbacks, s, stopCode) ==
  IF callbacks = <<>> THEN <<>>
  ELSE <<Delivery(Head(callbacks), s, stopCode)>>
       \o DeliverTo(Tail(callbacks), s, stopCode)

\* emitStreamBlockedEvent(event): the event, then its synchronous delivery
\* to the registered callbacks in registration order
emitStreamBlockedEvent(s, stopCode) ==
  <<StreamBlockedEvent(s, stopCode)>>
  \o DeliverTo(streamBlockedCallbacks, s, stopCode)

\* a variant that emits the event whether or not the call succeeded
TerminateAndEmit_always(s, reason, stopCode, failed) ==
  <<TerminateCall(s, reason, s \notin failed)>>
  \o emitStreamBlockedEvent(s, stopCode)

\* terminateSession(sessionId, reason), then on success the push to
\* stoppedSessions and emitStreamBlockedEvent; a failed call only logs
TerminateAndEmit(s, reason, stopCode, failed) ==
  IF s \in failed
  THEN <<TerminateCall(s, reason, FALSE)>>
  ELSE <<TerminateCall(s, reason, TRUE)>>
       \o emitStreamBlockedEvent(s, stopCode)

RECURSIVE CapCalls(_, _)
\* body of the termination loop of handleConcurrentStreamLimits
CapCalls(picked, failed) ==
  IF picked = <<>> THEN <<>>
  ELSE LET s == Head(picked)
       IN (IF ~sess[s].hasSessionId THEN <<>>
           ELSE TerminateAndEmit(s, "MSG_CONCURRENT_LIMIT",
                                 "CONCURRENT_LIMIT", failed))
          \o CapCalls(Tail(picked), failed)

\* sessions that are grouped by user: they have a user id and are not Plexamp
Groupable(sessions) ==
  SeqSelect(sessions, {s \in Range(sessions) :
                         sess[s].userId # NoUser /\ ~isPlexampSession(s)})

RECURSIVE UserOrder(_)
\* keys of the Map sessionsByUser, in insertion order
UserOrder(sessions) ==
  IF sessions = <<>> THEN <<>>
  ELSE LET rest == UserOrder(SubSeq(sessions, 1, Len(sessions) - 1))
           u == sess[sessions[Len(sessions)]].userId
       IN IF u \in Range(rest) THEN rest ELSE Append(rest, u)

\* sessionsByUser.get(userId)
SessionsOfUser(userId, sessions) ==
  SeqSelect(Groupable(sessions),
            {s \in Range(sessions) : sess[s].userId = userId})

RECURSIVE CapOverUsers(_, _, _, _, _, _)
\* the loop `for (const [userId, userSessions] of sessionsByUser)`; an error
\* raised by the check of one user is caught and the loop goes on
CapOverUsers(users, sessions, hist, at, reads, failed) ==
  IF users = <<>> THEN [picked |-> <<>>, calls |-> <<>>]
  ELSE LET picked == IF Head(users) \in capFault
                     THEN <<>>
                     ELSE CapPicked(Head(users),
                                    SessionsOfUser(Head(users), sessions),
                                    hist, at, reads)
           rest == CapOverUsers(Tail(users), sessions, hist, at, reads, failed)
       IN [picked |-> picked \o rest.picked,
           calls |-> CapCalls(picked, failed) \o rest.calls]

\* handleConcurrentStreamLimits(sessions, sessionsData)
handleConcurrentStreamLimits(sessions, hist, at, reads, failed) ==
  CapOverUsers(UserOrder(Groupable(sessions)), sessions, hist, at, reads,
               failed)

\* session ids pushed to stoppedSessions by a sequence of calls
Stopped(callSeq) ==
  {callSeq[i].session : i \in {j \in 1..Len(callSeq) :
                                 callSeq[j].op = "terminate" /\ callSeq[j].ok}}

(***************************************************************************)
(* SessionTerminationService.stopUnapprovedSessions                        *)
(***************************************************************************)
\* skip test of the per-session loop: the session id is in the set built
\* from stoppedSessions after the cap pass
AlreadyTerminated(s, capResult) ==
  sess[s].hasSessionId /\ s \in Stopped(capResult.calls)

RECURSIVE SessionPass_abort(_, _, _, _)
\* a loop that a failed terminate call ends
SessionPass_abort(sessions, capResult, at, failed) ==
  IF sessions = <<>> THEN <<>>
  ELSE LET s == Head(sessions)
           shouldStopResult == shouldStopSession(s, at)
       IN IF AlreadyTerminated(s, capResult)
             \/ ~shouldStopResult.shouldStop
             \/ ~sess[s].hasSessionId
          THEN SessionPass_abort(Tail(sessions), capResult, at, failed)
          ELSE IF s \in failed
          THEN <<TerminateCall(s, shouldStopResult.reason, FALSE)>>
          ELSE TerminateAndEmit(s, shouldStopResult.reason,
                                shouldStopResult.stopCode, failed)
               \o SessionPass_abort(Tail(sessions), capResult, at, failed)

RECURSIVE SessionPass(_, _, _, _)
\* the loop `for (const session of sessions)` of stopUnapprovedSessions
SessionPass(sessions, capResult, at, failed) ==
  IF sessions = <<>> THEN <<>>
  ELSE LET s == Head(sessions)
           shouldStopResult == shouldStopSession(s, at)
       IN (IF AlreadyTerminated(s, capResult) THEN <<>>
           ELSE IF shouldStopResult.shouldStop /\ sess[s].hasSessionId
           THEN TerminateAndEmit(s, shouldStopResult.reason,
                                 shouldStopResult.stopCode, failed)
           ELSE <<>>)
          \o SessionPass(Tail(sessions), capResult, at, failed)

\* stopUnapprovedSessions(sessionsData); failedCap and failedPass are the
\* sessions whose upstream terminate call fails in the cap pass and in the
\* per-session pass
stopUnapprovedSessions(sessions, hist, at, reads, failedCap, failedPass) ==
  IF sessions = <<>>
  THEN [calls |-> <<>>, capSelected |-> {}, stoppedSessions |-> {}]
  ELSE LET concurrentTerminations ==
             handleConcurrentStreamLimits(sessions, hist, at, reads, failedCap)
           passCalls ==
             SessionPass(sessions, concurrentTerminations, at, failedPass)
       IN [calls |-> concurrentTerminations.calls \o passCalls,
           capSelected |-> Range(concurrentTerminations.picked),
           stoppedSessions |->
             Stopped(concurrentTerminations.calls) \cup Stopped(passCalls)]

(***************************************************************************)
(* Initial states: the attributes of the playbacks and the configuration   *)
(* an administrator has stored.                                            *)
(***************************************************************************)
DeviceIds == {"d1", "d2", "d3"}
\* playback s runs on the device DeviceOf[s]
DeviceOf == [s \in SessionIds |->
               IF s = "s1" THEN "d1" ELSE IF s = "s2" THEN "d2" ELSE "d3"]
\* the grant of a device with temporary access expires between the first and
\* the second tick
GrantedUntil == {3}

SessionRow(userId, deviceIdentifier, product, address, hasSessionId) ==
  [userId |-> userId, machineIdentifier |-> deviceIdentifier,
   product |-> product, address |-> address, hasSessionId |-> hasSessionId]

DeviceRow(userId, status, exclude, until, bypass) ==
  [exists |-> TRUE, userId |-> userId, status |-> status,
   excludeFromConcurrentLimit |-> exclude,
   temporaryAccessUntil |-> until,
   temporaryAccessBypassPolicies |-> bypass]

PrefRow(limit, defaultBlock, networkPolicy, ipAccessPolicy) ==
  [exists |-> TRUE, concurrentStreamLimit |-> limit,
   defaultBlock |-> defaultBlock, networkPolicy |-> networkPolicy,
   ipAccessPolicy |-> ipAccessPolicy, allowedIPs |-> {LanAddress}]

NoPrefRow ==
  [exists |-> FALSE, concurrentStreamLimit |-> NullLimit,
   defaultBlock |-> "null", networkPolicy |-> "both",
   ipAccessPolicy |-> "all", allowedIPs |-> {}]

TimeRule(userId, deviceIdentifier) ==
  [userId |-> userId, deviceIdentifier |-> deviceIdentifier, enabled |-> TRUE,
   startTime |-> 1, endTime |-> 2 * MaxTicks + 2]

Settings(limit, includeTemp, defaultBlock) ==
  [CONCURRENT_STREAM_LIMIT |-> limit,
   CONCURRENT_LIMIT_INCLUDE_TEMP_ACCESS |-> includeTemp,
   PLEX_GUARD_DEFAULT_BLOCK |-> defaultBlock]

\* the identifier field holding null, and the one machine identifier that
\* the media server has
NullIdentifier == "null"
MachineIdentifier == "machine-1"
\* serverIdentifierPromise holding null; a promise is known by the number
\* of the upstream request that it wraps
NoPromise == 0
\* upstream identity requests that one run may issue
MaxFetches == 3
\* the requests that may call getServerIdentifier together
IdentifierCallers == {"c1", "c2", "c3"}
\* a getServerIdentifier call that has not been made
IdleIdentifierCall ==
  [pc |-> "idle", promise |-> NoPromise, result |-> NullIdentifier]
\* a create-admin request that has not arrived
IdleAdminCall == [pc |-> "idle", username |-> "", email |-> "",
                  passwordsMatch |-> TRUE, error |-> ""]
\* no HTTP request was answered yet
NoResponse == [handler |-> "none"]
\* a Plex account id that no account has
NoPlexUser == "no-plex-user"
\* SESSION_EXPIRATION_MS, in instants of the clock
SessionExpiration == 2
\* a row of admin_users
AdminRow(username, email, plexUserId) ==
  [id |-> username, username |-> username, email |-> email,
   plexUserId |-> plexUserId]
\* a row of sessions; the token is drawn at random and never repeats
SessionRecord(token, userType, userId, plexUserId, expiresAt) ==
  [token |-> token, userType |-> userType, userId |-> userId,
   plexUserId |-> plexUserId, expiresAt |-> expiresAt]
\* the sessions that may exist together, and the last instant of the clock
\* at which the session table is watched
MaxSessions == 2
MaxNow == 3
\* session tokens are drawn at random: the token of a new session differs
\* from every token drawn before
TokenBase == MaxSessions + 1
Tokens == 1 .. ((MaxNow + 1) * TokenBase)
\* a request without the cookie session_token
NoToken == 0
\* POST /auth/plex/login without authToken in its body
NoAuthToken == ""
\* the auth tokens a client may send: plex.tv knows the account of the
\* first two and rejects the third
AuthTokens == {"token-u1", "token-u2", "token-revoked"}
\* a route: its method, its path and the metadata that @Public() and
\* @AdminOnly() attach to its handler or to its class
Route(method, path, public, admin) ==
  [method |-> method, path |-> path, isPublic |-> public,
   adminOnly |-> admin]
\* routes marked @AdminOnly(): one by its class (DashboardController), one
\* by its handler (AuthController.getLinkedPlexAccount)
AdminOnlyRoutes ==
  {Route("GET", "dashboard", FALSE, TRUE),
   Route("GET", "auth/plex/link", FALSE, TRUE)}
\* the POST routes of UsersController
UserPreferenceRoutes ==
  {Route("POST", "users/:userId/preference", FALSE, FALSE),
   Route("POST", "users/:userId/ip-policy", FALSE, FALSE),
   Route("POST", "users/:userId/concurrent-stream-limit", FALSE, FALSE),
   Route("POST", "users/:userId/hide", FALSE, FALSE),
   Route("POST", "users/:userId/show", FALSE, FALSE),
   Route("POST", "users/:userId/toggle-visibility", FALSE, FALSE)}
\* GET /health is @Public(); GET /user-portal/devices carries no marker
OtherRoutes ==
  {Route("GET", "health", TRUE, FALSE),
   Route("GET", "user-portal/devices", FALSE, FALSE)}
Routes == AdminOnlyRoutes \cup UserPreferenceRoutes \cup OtherRoutes
\* req.user of a request that was given no user
NoSessionUser ==
  [userType |-> "none", id |-> NoUser, plexUserId |-> NoPlexUser]
\* subscribers of the stream_blocked event
CallbackIds == {"cb1", "cb2"}
\* requestDeviceApproval calls that may be in flight together
CallIds == {"c1", "c2"}
\* the description argument left out, and a column requestDescription
\* holding SQL NULL
NoNote == "no-note"
\* the note each call submits when it passes a description
NoteOf == [c \in CallIds |-> IF c = "c1" THEN "note-1" ELSE "note-2"]
Notes == {NoteOf[c] : c \in CallIds}
\* messages of the ForbiddenException requestDeviceApproval throws
PortalErrors == {"Device not found", "Access denied to this device",
                 "Device is already approved",
                 "A note has already been submitted for this device",
                 "Adding notes for rejected devices is not allowed"}
\* note columns of a device that never received a note
NoRequest == [requestDescription |-> NoNote, requestSubmittedAt |-> NoTime]
\* a call slot no request has used
IdleCall == [pc |-> "idle", plexUserId |-> NoUser, deviceId |-> "d1",
             description |-> NoNote, error |-> ""]

TypeOK ==
  /\ now \in Nat
  /\ ticks \in 0..MaxTicks
  /\ history \in [SessionIds -> Nat]
  /\ snapshot \in OrderedSubsets(SessionIds)
  /\ capSelected \subseteq SessionIds
  /\ stoppedSessions \subseteq SessionIds
  /\ outcome \in {"none", "returned", "threw"}
  /\ readFault \in [SessionIds -> FaultKinds]
  /\ capFault \subseteq UserIds
  /\ requests \in [DeviceIds -> [requestDescription : Notes \cup {"", NoNote},
                                 requestSubmittedAt : Nat]]
  /\ portalSettings \in [USER_PORTAL_ALLOW_REJECTED_REQUESTS : BOOLEAN,
                         USER_PORTAL_ENABLED : BOOLEAN]
  /\ streamBlockedCallbacks \in OrderedSubsets(CallbackIds)
  /\ throwing \subseteq CallbackIds
  /\ portalCalls \in [CallIds ->
                        [pc : {"idle", "getBooleanSetting", "update",
                               "returned", "threw"},
                         plexUserId : UserIds \cup {NoUser},
                         deviceId : DeviceIds,
                         description : Notes \cup {NoNote},
                         error : PortalErrors \cup {""}]]

\* no tick has run since the process started
NoCallsYet ==
  /\ snapshot = <<>>
  /\ calls = <<>>
  /\ capSelected = {}
  /\ stoppedSessions = {}
  /\ steps = <<>>
  /\ outcome = "none"
  /\ portalCalls = [c \in CallIds |-> IdleCall]
  /\ streamBlockedCallbacks = <<>>
  /\ adminCalls = [c \in CallIds |-> IdleAdminCall]
  /\ response = NoResponse
  /\ serverIdentifierCache = NullIdentifier
  /\ serverIdentifierPromise = NoPromise
  /\ identityRequests = <<>>
  /\ identifierCalls = [c \in IdentifierCallers |-> IdleIdentifierCall]

\* every read of the stores succeeds and no callback throws
NoFaults ==
  /\ readFault = [s \in SessionIds |-> "none"]
  /\ capFault = {}
  /\ throwing = {}

\* no note was ever submitted, rejected devices may submit one (the
\* default of USER_PORTAL_ALLOW_REJECTED_REQUESTS) and the portal is open
NoRequestYet ==
  /\ requests = [d \in DeviceIds |-> NoRequest]
  /\ portalSettings = [USER_PORTAL_ALLOW_REJECTED_REQUESTS |-> TRUE,
                       USER_PORTAL_ENABLED |-> TRUE]

\* no administrator was created and nobody has logged in
NoAuthYet ==
  /\ adminUsers = {}
  /\ authSessions = {}

\* no tick has ever run
NoTickYet ==
  /\ now = 0
  /\ ticks = 0
  /\ history = [s \in SessionIds |-> NoTime]
  /\ NoCallsYet
  /\ NoRequestYet
  /\ NoAuthYet

\* Policy configurations: playback s1 and its device d1 take every
\* combination of product, address, status, exclusion flag, temporary grant
\* and time rule; s2 is an ordinary playback of the same user on an approved
\* device, s3 is not playing; the global limit is 0 (unlimited) or 1.
Init ==
  /\ NoTickYet
  /\ NoFaults
  /\ \E product \in {"Plexamp", "Plex Web"} :
     \E address \in {LanAddress, WanAddress} :
       sess = [s \in SessionIds |->
                 IF s = "s1"
                 THEN SessionRow("u1", "d1", product, address, TRUE)
                 ELSE SessionRow("u1", DeviceOf[s], "Plex Web", LanAddress, TRUE)]
  /\ \E status \in {"pending", "approved", "rejected"} :
     \E exclude \in BOOLEAN :
     \E until \in {NoTime} \cup GrantedUntil :
     \E bypass \in {b \in BOOLEAN : until # NoTime \/ ~b} :
       devices = [d \in DeviceIds |->
                    IF d = "d1"
                    THEN DeviceRow("u1", status, exclude, until, bypass)
                    ELSE DeviceRow("u1", "approved", FALSE, NoTime, FALSE)]
  /\ \E networkPolicy \in {"both", "lan"} :
       prefs = [u \in UserIds |->
                  IF u = "u1"
                  THEN PrefRow(NullLimit, "null", networkPolicy, "all")
                  ELSE NoPrefRow]
  /\ \E limit \in {0, 1} :
     \E includeTemp \in BOOLEAN :
     \E defaultBlock \in BOOLEAN :
       settings = Settings(limit, includeTemp, defaultBlock)
  /\ timeRules \in {{}, {TimeRule("u1", "d1")}}

\* Cap configurations: three playbacks on approved devices without time or
\* network restriction; the global limit, the limit of u1 (none, 0 or 1),
\* the owner of s3, the exclusion flag of d1 and the presence of a session
\* id on s2 vary.
CapConfiguration ==
  /\ \E u3 \in UserIds :
     \E hasSessionId \in BOOLEAN :
       sess = [s \in SessionIds |->
                 IF s = "s1"
                 THEN SessionRow("u1", "d1", "Plex Web", LanAddress, TRUE)
                 ELSE IF s = "s2"
                 THEN SessionRow("u1", "d2", "Plex Web", LanAddress, hasSessionId)
                 ELSE SessionRow(u3, "d3", "Plex Web", LanAddress, TRUE)]
  /\ \E exclude \in BOOLEAN :
       devices = [d \in DeviceIds |->
                    IF d = "d1"
                    THEN DeviceRow("u1", "approved", exclude, NoTime, FALSE)
                    ELSE IF d = "d2"
                    THEN DeviceRow("u1", "approved", FALSE, NoTime, FALSE)
                    ELSE DeviceRow(sess["s3"].userId, "approved", FALSE,
                                   NoTime, FALSE)]
  /\ \E userLimit \in {NullLimit, 0, 1} :
       prefs = [u \in UserIds |->
                  IF u = "u1" THEN PrefRow(userLimit, "null", "both", "all")
                  ELSE NoPrefRow]
  /\ \E limit \in 0..MaxLimit : settings = Settings(limit, FALSE, FALSE)
  /\ timeRules = {}
  /\ NoFaults

\* Cap configurations in which earlier ticks have left any history rows:
\* each playback has no row yet or a row opened at one of two past instants.
InitCap ==
  /\ CapConfiguration
  /\ now = 2
  /\ ticks = 0
  /\ history \in [SessionIds -> {NoTime, 1, 2}]
  /\ NoCallsYet
  /\ NoRequestYet
  /\ NoAuthYet

\* Cap configurations before the first tick.
InitTicks ==
  /\ CapConfiguration
  /\ settings.CONCURRENT_STREAM_LIMIT > 0
  /\ prefs["u1"].concurrentStreamLimit # 0
  /\ sess["s2"].hasSessionId
  /\ ~devices["d1"].excludeFromConcurrentLimit
  /\ NoTickYet

\* Entry-point configurations: playback s1 on an approved or a rejected
\* device, from a LAN or a WAN address under a LAN-only policy, with a global
\* limit of 0 or 1; no read fails.
InitEntry ==
  /\ NoTickYet
  /\ NoFaults
  /\ \E address \in {LanAddress, WanAddress} :
       sess = [s \in SessionIds |->
                 IF s = "s1"
                 THEN SessionRow("u1", "d1", "Plex Web", address, TRUE)
                 ELSE SessionRow("u1", DeviceOf[s], "Plex Web", LanAddress, TRUE)]
  /\ \E status \in {"approved", "rejected"} :
       devices = [d \in DeviceIds |->
                    IF d = "d1"
                    THEN DeviceRow("u1", status, FALSE, NoTime, FALSE)
                    ELSE DeviceRow("u1", "approved", FALSE, NoTime, FALSE)]
  /\ prefs = [u \in UserIds |->
               IF u = "u1" THEN PrefRow(NullLimit, "null", "lan", "all")
               ELSE NoPrefRow]
  /\ \E limit \in {0, 1} : settings = Settings(limit, FALSE, FALSE)
  /\ timeRules = {}

\* Fault configurations: s1 and s2 of u1 under a LAN-only policy and default
\* block, d1 in any status, d2 approved or rejected, with or without a time
\* block window on d1; a read may raise an error while s1 or s2 is evaluated,
\* and the cap check of u1 may raise one.
InitFaults ==
  /\ NoTickYet
  /\ \E address \in {LanAddress, WanAddress} :
       sess = [s \in SessionIds |->
                 IF s = "s1"
                 THEN SessionRow("u1", "d1", "Plex Web", address, TRUE)
                 ELSE SessionRow("u1", DeviceOf[s], "Plex Web", LanAddress, TRUE)]
  /\ \E status1 \in {"pending", "approved", "rejected"} :
     \E status2 \in {"approved", "rejected"} :
       devices = [d \in DeviceIds |->
                    IF d = "d1"
                    THEN DeviceRow("u1", status1, FALSE, NoTime, FALSE)
                    ELSE IF d = "d2"
                    THEN DeviceRow("u1", status2, FALSE, NoTime, FALSE)
                    ELSE DeviceRow("u1", "approved", FALSE, NoTime, FALSE)]
  /\ prefs = [u \in UserIds |->
               IF u = "u1" THEN PrefRow(NullLimit, "null", "lan", "all")
               ELSE NoPrefRow]
  /\ \E limit \in {0, 1} : settings = Settings(limit, FALSE, TRUE)
  /\ timeRules \in {{}, {TimeRule("u1", "d1")}}
  /\ \E fault1 \in FaultKinds :
     \E fault2 \in {"none", "device"} :
       readFault = [s \in SessionIds |->
                      IF s = "s1" THEN fault1
                      ELSE IF s = "s2" THEN fault2 ELSE "none"]
  /\ capFault \in SUBSET {"u1"}
  /\ throwing = {}

\* Portal configurations: d1 of u1 is pending, rejected or approved, d2 of
\* u1 is pending or has no row; notes for rejected devices are allowed or
\* not; no note was submitted yet and no tick runs.
InitPortal ==
  /\ now = 0
  /\ ticks = 0
  /\ history = [s \in SessionIds |-> NoTime]
  /\ NoCallsYet
  /\ NoFaults
  /\ NoAuthYet
  /\ sess = [s \in SessionIds |->
               SessionRow("u1", DeviceOf[s], "Plex Web", LanAddress, TRUE)]
  /\ \E status \in {"pending", "rejected", "approved"} :
     \E row2 \in {NoDeviceRow, DeviceRow("u1", "pending", FALSE, NoTime, FALSE)} :
       devices = [d \in DeviceIds |->
                    IF d = "d1"
                    THEN DeviceRow("u1", status, FALSE, NoTime, FALSE)
                    ELSE IF d = "d2" THEN row2
                    ELSE DeviceRow("u1", "approved", FALSE, NoTime, FALSE)]
  /\ prefs = [u \in UserIds |-> NoPrefRow]
  /\ settings = Settings(0, FALSE, FALSE)
  /\ timeRules = {}
  /\ requests = [d \in DeviceIds |-> NoRequest]
  /\ \E allow \in BOOLEAN :
       portalSettings = [USER_PORTAL_ALLOW_REJECTED_REQUESTS |-> allow,
                         USER_PORTAL_ENABLED |-> TRUE]

\* Identity configurations: playback s1 may lack the user id, the machine
\* identifier, the player address or the session id, and is a Plexamp
\* playback or not; its device d1 is in any status, with or without a
\* bypass grant; u1 has a LAN-only preference row or none; the global limit
\* is 0 or 1.
InitIdentity ==
  /\ NoTickYet
  /\ NoFaults
  /\ \E userId \in {"u1", NoUser} :
     \E deviceIdentifier \in {"d1", NoMachine} :
     \E product \in {"Plexamp", "Plex Web"} :
     \E address \in {LanAddress, NoAddress} :
     \E hasSessionId \in BOOLEAN :
       sess = [s \in SessionIds |->
                 IF s = "s1"
                 THEN SessionRow(userId, deviceIdentifier, product, address,
                                 hasSessionId)
                 ELSE SessionRow("u1", DeviceOf[s], "Plex Web", LanAddress, TRUE)]
  /\ \E status \in {"pending", "approved", "rejected"} :
     \E until \in {NoTime} \cup GrantedUntil :
       devices = [d \in DeviceIds |->
                    IF d = "d1"
                    THEN DeviceRow("u1", status, FALSE, until, until # NoTime)
                    ELSE DeviceRow("u1", "approved", FALSE, NoTime, FALSE)]
  /\ \E row \in {NoPrefRow, PrefRow(NullLimit, "null", "lan", "all")} :
       prefs = [u \in UserIds |-> IF u = "u1" THEN row ELSE NoPrefRow]
  /\ \E limit \in {0, 1} : settings = Settings(limit, FALSE, TRUE)
  /\ timeRules = {}

\* Player.product strings, character by character
ProductChars ==
  [p \in {"Plexamp", "plexamp", "Plex Web"} |->
     CASE p = "Plexamp" -> <<"P", "l", "e", "x", "a", "m", "p">>
       [] p = "plexamp" -> <<"p", "l", "e", "x", "a", "m", "p">>
       [] OTHER -> <<"P", "l", "e", "x", " ", "W", "e", "b">>]

\* String.prototype.toLowerCase
toLowerCase(chars) ==
  [i \in 1..Len(chars) |->
     CASE chars[i] = "P" -> "p"
       [] chars[i] = "W" -> "w"
       [] OTHER -> chars[i]]

\* String.prototype.includes
includes(chars, needle) ==
  \E i \in 0..(Len(chars) - Len(needle)) :
    SubSeq(chars, i + 1, i + Len(needle)) = needle

\* user_devices.device_product: the product of the player the row was
\* recorded from
deviceProduct(deviceIdentifier) ==
  LET s == CHOOSE s \in SessionIds : DeviceOf[s] = deviceIdentifier
  IN sess[s].product

\* UserPortalService.getUserDevices: the status reported for a device
effectiveStatus(deviceIdentifier) ==
  IF includes(toLowerCase(ProductChars[deviceProduct(deviceIdentifier)]),
              <<"p", "l", "e", "x", "a", "m", "p">>)
  THEN "approved"
  ELSE devices[deviceIdentifier].status

\* Product configurations: playback s1 of u1 reports one of three products;
\* its device d1 is in any status; devices are blocked by default; the
\* global limit is 0 or 1.
InitProduct ==
  /\ NoTickYet
  /\ NoFaults
  /\ \E product \in DOMAIN ProductChars :
       sess = [s \in SessionIds |->
                 IF s = "s1"
                 THEN SessionRow("u1", "d1", product, LanAddress, TRUE)
                 ELSE SessionRow("u1", DeviceOf[s], "Plex Web", LanAddress, TRUE)]
  /\ \E status \in {"pending", "approved", "rejected"} :
       devices = [d \in DeviceIds |->
                    IF d = "d1"
                    THEN DeviceRow("u1", status, FALSE, NoTime, FALSE)
                    ELSE DeviceRow("u1", "approved", FALSE, NoTime, FALSE)]
  /\ prefs = [u \in UserIds |-> NoPrefRow]
  /\ \E limit \in {0, 1} : settings = Settings(limit, FALSE, TRUE)
  /\ timeRules = {}

\* Event configurations: s1 on d1 and s2 on d2, each device approved or
\* rejected, global limit 0 or 1; no callback is registered yet and any of
\* the callbacks may be one that throws.
InitEvents ==
  /\ NoTickYet
  /\ readFault = [s \in SessionIds |-> "none"]
  /\ capFault = {}
  /\ throwing \in SUBSET CallbackIds
  /\ sess = [s \in SessionIds |->
               SessionRow("u1", DeviceOf[s], "Plex Web", LanAddress, TRUE)]
  /\ \E status1 \in {"approved", "rejected"} :
     \E status2 \in {"approved", "rejected"} :
       devices = [d \in DeviceIds |->
                    IF d = "d1"
                    THEN DeviceRow("u1", status1, FALSE, NoTime, FALSE)
                    ELSE IF d = "d2"
                    THEN DeviceRow("u1", status2, FALSE, NoTime, FALSE)
                    ELSE DeviceRow("u1", "approved", FALSE, NoTime, FALSE)]
  /\ prefs = [u \in UserIds |-> NoPrefRow]
  /\ \E limit \in {0, 1} : settings = Settings(limit, FALSE, FALSE)
  /\ timeRules = {}

\* onStreamBlocked(callback): the subscribers register while the
\* application starts, before the first tick
onStreamBlocked(callback) ==
  /\ ticks = 0
  /\ callback \notin Range(streamBlockedCallbacks)
  /\ streamBlockedCallbacks' = Append(streamBlockedCallbacks, callback)
  /\ UNCHANGED <<now, sess, devices, prefs, settings, timeRules, history,
                 snapshot, calls, capSelected, stoppedSessions, ticks, steps,
                 outcome, readFault, serverIdentifierCache,
              serverIdentifierPromise, identityRequests,
              identifierCalls, capFault, requests, portalSettings,
                 portalCalls, throwing, adminUsers, authSessions,
                 adminCalls, response>>

\* Limit configurations: each user has no preference row, a row with a null
\* limit or a row with a limit; the global limit takes every value.
InitInfo ==
  /\ NoTickYet
  /\ NoFaults
  /\ sess = [s \in SessionIds |->
               SessionRow("u1", DeviceOf[s], "Plex Web", LanAddress, TRUE)]
  /\ devices = [d \in DeviceIds |->
                  DeviceRow("u1", "approved", FALSE, NoTime, FALSE)]
  /\ prefs \in [UserIds ->
                  {NoPrefRow}
                  \cup {PrefRow(limit, "null", "both", "all") :
                          limit \in {NullLimit} \cup 0..MaxLimit}]
  /\ \E limit \in 0..MaxLimit : settings = Settings(limit, FALSE, FALSE)
  /\ timeRules = {}

(***************************************************************************)
(* UsersController.                                                        *)
(***************************************************************************)
\* preference?.concurrentStreamLimit: undefined without a row, null for a
\* NULL column, the number otherwise
OptionalLimit(userId) ==
  IF ~prefs[userId].exists THEN UndefinedLimit
  ELSE prefs[userId].concurrentStreamLimit

\* preference?.concurrentStreamLimit !== null
isOverridden(userId) == OptionalLimit(userId) # NullLimit

\* GET /users/:userId/concurrent-stream-info
getConcurrentStreamInfo(userId) ==
  /\ response' =
       [handler |-> "getConcurrentStreamInfo",
        userId |-> userId,
        limit |-> IF OptionalLimit(userId) \in {UndefinedLimit, NullLimit}
                  THEN NullLimit ELSE OptionalLimit(userId),
        effectiveLimit |-> getEffectiveLimit(userId),
        isUnlimited |-> getEffectiveLimit(userId) = 0,
        isOverridden |-> isOverridden(userId)]
  /\ UNCHANGED <<now, sess, devices, prefs, settings, timeRules, history,
                 snapshot, calls, capSelected, stoppedSessions, ticks, steps,
                 outcome, readFault, serverIdentifierCache,
              serverIdentifierPromise, identityRequests,
              identifierCalls, capFault, requests, portalSettings,
                 portalCalls, streamBlockedCallbacks, throwing, adminUsers,
                 authSessions, adminCalls>>

\* Set-up configurations: a fresh installation without administrator.
InitSetup ==
  /\ NoTickYet
  /\ NoFaults
  /\ sess = [s \in SessionIds |->
               SessionRow("u1", DeviceOf[s], "Plex Web", LanAddress, TRUE)]
  /\ devices = [d \in DeviceIds |-> NoDeviceRow]
  /\ prefs = [u \in UserIds |-> NoPrefRow]
  /\ settings = Settings(0, FALSE, FALSE)
  /\ timeRules = {}

(***************************************************************************)
(* AuthController.createAdmin and AuthService.createAdmin.  Each await of  *)
(* a repository call is one step, so that the steps of two requests        *)
(* interleave.                                                             *)
(***************************************************************************)
\* what a step of a create-admin request leaves alone
SetupUnchanged ==
  UNCHANGED <<now, sess, devices, prefs, settings, timeRules, history,
              snapshot, calls, capSelected, stoppedSessions, ticks, steps,
              outcome, readFault, serverIdentifierCache,
              serverIdentifierPromise, identityRequests,
              identifierCalls, capFault, requests, portalSettings,
              portalCalls, streamBlockedCallbacks, throwing>>

\* AuthService.hasAdminUsers: count() > 0
hasAdminUsers == Cardinality(adminUsers) > 0

\* generateToken: a token that no session had before; the sessions created
\* at this instant are the ones that expire SessionExpiration from now
generateToken ==
  now * TokenBase
  + Cardinality({session \in authSessions :
                   session.expiresAt = now + SessionExpiration}) + 1

\* createSession(userId): a fresh token, valid for SESSION_EXPIRATION_MS
createSession(userId) ==
  SessionRecord(generateToken, "admin", userId, NoPlexUser,
                now + SessionExpiration)

\* AuthController.createAdmin up to its second await: the controller counts
\* the administrators and compares the passwords
createAdmin_controllerCheck(c, username, email, passwordsMatch) ==
  /\ adminCalls[c].pc = "idle"
  /\ adminCalls' =
       [adminCalls EXCEPT
          ![c] = [pc |-> IF hasAdminUsers \/ ~passwordsMatch
                         THEN "threw" ELSE "serviceCheck",
                  username |-> username, email |-> email,
                  passwordsMatch |-> passwordsMatch,
                  error |-> IF hasAdminUsers
                            THEN "Admin user already exists"
                            ELSE IF ~passwordsMatch
                            THEN "Passwords do not match" ELSE ""]]
  /\ response' = IF hasAdminUsers \/ ~passwordsMatch
                 THEN [handler |-> "createAdmin", call |-> c, status |-> 400,
                       cookie |-> 0]
                 ELSE response
  /\ UNCHANGED <<adminUsers, authSessions>>
  /\ SetupUnchanged

\* AuthService.createAdmin up to the save: the service counts the
\* administrators again, then hashes the password
createAdmin_serviceCheck(c) ==
  /\ adminCalls[c].pc = "serviceCheck"
  /\ adminCalls' =
       [adminCalls EXCEPT
          ![c].pc = IF hasAdminUsers THEN "threw" ELSE "save",
          ![c].error = IF hasAdminUsers
                       THEN "Admin user already exists" ELSE ""]
  /\ response' = IF hasAdminUsers
                 THEN [handler |-> "createAdmin", call |-> c, status |-> 400,
                       cookie |-> 0]
                 ELSE response
  /\ UNCHANGED <<adminUsers, authSessions>>
  /\ SetupUnchanged

\* adminUserRepository.save under the unique indexes on username and on
\* email, then createSession and the session cookie
createAdmin_save(c) ==
  /\ adminCalls[c].pc = "save"
  /\ IF \E admin \in adminUsers :
          \/ admin.username = adminCalls[c].username
          \/ admin.email = adminCalls[c].email
     THEN /\ adminCalls' =
               [adminCalls EXCEPT
                  ![c].pc = "threw",
                  ![c].error = "Username or email already exists"]
          /\ response' = [handler |-> "createAdmin", call |-> c,
                          status |-> 400, cookie |-> 0]
          /\ UNCHANGED <<adminUsers, authSessions>>
     ELSE /\ adminUsers' =
               adminUsers \cup {AdminRow(adminCalls[c].username,
                                         adminCalls[c].email, NoPlexUser)}
          /\ authSessions' =
               authSessions \cup {createSession(adminCalls[c].username)}
          /\ adminCalls' = [adminCalls EXCEPT ![c].pc = "returned"]
          /\ response' = [handler |-> "createAdmin", call |-> c,
                          status |-> 201,
                          cookie |-> createSession(adminCalls[c].username).token]
  /\ SetupUnchanged

\* Login configurations: one administrator, linked to the Plex account u1
\* or to none; u1 has a preference row or none and u2 has one; the portal
\* is enabled or not; nobody has logged in.
InitAuth ==
  /\ now = 0
  /\ ticks = 0
  /\ history = [s \in SessionIds |-> NoTime]
  /\ NoCallsYet
  /\ NoFaults
  /\ sess = [s \in SessionIds |->
               SessionRow("u1", DeviceOf[s], "Plex Web", LanAddress, TRUE)]
  /\ devices = [d \in DeviceIds |-> NoDeviceRow]
  /\ prefs \in [UserIds -> {NoPrefRow, PrefRow(NullLimit, "null", "both",
                                              "all")}]
  /\ prefs["u2"].exists
  /\ settings = Settings(0, FALSE, FALSE)
  /\ timeRules = {}
  /\ requests = [d \in DeviceIds |-> NoRequest]
  /\ \E enabled \in BOOLEAN :
       portalSettings = [USER_PORTAL_ALLOW_REJECTED_REQUESTS |-> TRUE,
                         USER_PORTAL_ENABLED |-> enabled]
  /\ \E plexUserId \in {NoPlexUser, "u1"} :
       adminUsers = {AdminRow("alice", "alice@example.org", plexUserId)}
  /\ authSessions = {}

\* Identity-cache configurations: the process has just started, nothing is
\* cached and no identity request is in flight.
InitServerIdentity == InitSetup

(***************************************************************************)
(* The user portal: UserPortalService.requestDeviceApproval.  Each await   *)
(* of a repository call is one step, so that the steps of two calls        *)
(* interleave.                                                             *)
(***************************************************************************)
\* what the enforcement side of the model leaves alone
PortalUnchanged ==
  UNCHANGED <<sess, devices, prefs, settings, timeRules, history, snapshot,
              calls, capSelected, stoppedSessions, ticks, steps, outcome,
              readFault, serverIdentifierCache,
              serverIdentifierPromise, identityRequests,
              identifierCalls, capFault, portalSettings, streamBlockedCallbacks,
              throwing, adminUsers, authSessions, adminCalls, response>>

\* a device row that never reports a submitted note
AlreadySubmitted_never(deviceId) == FALSE

\* if (device.requestSubmittedAt)
AlreadySubmitted(deviceId) == requests[deviceId].requestSubmittedAt # NoTime

\* the checks on the device row that findOne returned: the position the
\* call continues at, and the error it throws
CheckDevice(plexUserId, deviceId) ==
  IF ~devices[deviceId].exists
  THEN [pc |-> "threw", error |-> "Device not found"]
  ELSE IF devices[deviceId].userId # plexUserId
  THEN [pc |-> "threw", error |-> "Access denied to this device"]
  ELSE IF devices[deviceId].status = "approved"
  THEN [pc |-> "threw", error |-> "Device is already approved"]
  ELSE IF AlreadySubmitted(deviceId)
  THEN [pc |-> "threw",
        error |-> "A note has already been submitted for this device"]
  ELSE IF devices[deviceId].status = "rejected"
  THEN [pc |-> "getBooleanSetting", error |-> ""]
  ELSE [pc |-> "update", error |-> ""]

\* description || ''
DescriptionOrEmpty(description) ==
  IF description = NoNote THEN "" ELSE description

\* requestDeviceApproval(plexUserId, deviceId, description) up to its second
\* await: the device row is read and checked
requestDeviceApproval_findOne(c, plexUserId, deviceId, description) ==
  /\ portalCalls[c].pc = "idle"
  /\ LET check == CheckDevice(plexUserId, deviceId)
     IN portalCalls' = [portalCalls EXCEPT
                          ![c] = [pc |-> check.pc, plexUserId |-> plexUserId,
                                  deviceId |-> deviceId,
                                  description |-> description,
                                  error |-> check.error]]
  /\ UNCHANGED <<now, requests>>
  /\ PortalUnchanged

\* for a rejected device: USER_PORTAL_ALLOW_REJECTED_REQUESTS is read
requestDeviceApproval_getBooleanSetting(c) ==
  /\ portalCalls[c].pc = "getBooleanSetting"
  /\ portalCalls' =
       [portalCalls EXCEPT
          ![c].pc = IF portalSettings.USER_PORTAL_ALLOW_REJECTED_REQUESTS
                    THEN "update" ELSE "threw",
          ![c].error = IF portalSettings.USER_PORTAL_ALLOW_REJECTED_REQUESTS
                       THEN ""
                       ELSE "Adding notes for rejected devices is not allowed"]
  /\ UNCHANGED <<now, requests>>
  /\ PortalUnchanged

\* the note and the submission time (new Date()) are written; the
\* notification that follows cannot fail the call
requestDeviceApproval_update(c) ==
  /\ portalCalls[c].pc = "update"
  /\ now' = now + 1
  /\ requests' =
       [requests EXCEPT
          ![portalCalls[c].deviceId] =
             [requestDescription |->
                DescriptionOrEmpty(portalCalls[c].description),
              requestSubmittedAt |-> now + 1]]
  /\ portalCalls' = [portalCalls EXCEPT ![c].pc = "returned"]
  /\ PortalUnchanged

(***************************************************************************)
(* One tick of the poll loop.                                              *)
(***************************************************************************)
\* position of a session in a list
IndexOf(seq, x) == CHOOSE i \in 1..Len(seq) : seq[i] = x

\* sub-instants of the clock reads of getSessionStartTimes: only sessions
\* without a history row read the clock, and a later read is not earlier
ClockReads(sessions, hist) ==
  {reads \in [SessionIds -> SubInstants] :
     /\ \A s \in SessionIds :
          (s \notin Range(sessions) \/ hist[s] # NoTime) => reads[s] = 0
     /\ \A s, t \in Range(sessions) :
          (/\ hist[s] = NoTime
           /\ hist[t] = NoTime
           /\ IndexOf(sessions, s) < IndexOf(sessions, t))
          => reads[s] <= reads[t]}

\* ActiveSessionService.updateActiveSessions: a row is opened, with
\* startedAt = now, for every session key that has none
updateActiveSessions(sessions, at) ==
  [s \in SessionIds |->
     IF s \in Range(sessions) /\ history[s] = NoTime THEN at ELSE history[s]]

\* SessionOrchestratorService.updateSessionHistory: a failure of the history
\* writer is logged and swallowed
updateSessionHistory(sessions, at, historyOk) ==
  IF historyOk THEN updateActiveSessions(sessions, at) ELSE history

\* the outcome of each step of a tick: the device-tracking and the history
\* step may fail, and the entry points log and swallow that
StepLog(plan, trackOk, historyOk) ==
  [i \in 1..Len(plan) |->
     [step |-> plan[i],
      ok |-> CASE plan[i] = "track" -> trackOk
               [] plan[i] = "history" -> historyOk
               [] OTHER -> TRUE]]

\* One tick that runs the steps of plan in order over the fetched sessions.
\* In both entry points the history step precedes enforcement, so
\* enforcement reads the history table the tick leaves behind; terminate
\* calls fail only when terminateMayFail.
Tick(plan, sessions, trackOk, historyOk, terminateMayFail) ==
  LET at == now + Cardinality(SubInstants)
      hist == IF "history" \in Range(plan)
              THEN updateSessionHistory(sessions, at, historyOk)
              ELSE history
  IN /\ ticks' = ticks + 1
     /\ now' = at
     /\ UNCHANGED <<sess, devices, prefs, settings, timeRules, readFault, serverIdentifierCache,
              serverIdentifierPromise, identityRequests,
              identifierCalls,
                    capFault, requests, portalSettings, portalCalls,
                    streamBlockedCallbacks, throwing,
                    adminUsers, authSessions, adminCalls, response>>
     /\ history' = hist
     /\ snapshot' = IF plan = <<>> THEN <<>> ELSE sessions
     /\ steps' = StepLog(plan, trackOk, historyOk)
     /\ IF "enforce" \in Range(plan)
        THEN \E reads \in ClockReads(sessions, hist) :
             \E failedCap \in
                  IF terminateMayFail
                  THEN SUBSET Range(handleConcurrentStreamLimits(
                                      sessions, hist, at, reads, {}).picked)
                  ELSE {{}} :
             \E failedPass \in
                  IF terminateMayFail
                  THEN SUBSET {s \in Range(sessions) :
                                 shouldStopSession(s, at).shouldStop}
                  ELSE {{}} :
               LET result == stopUnapprovedSessions(sessions, hist, at, reads,
                                                    failedCap, failedPass)
               IN /\ calls' = result.calls
                  /\ capSelected' = result.capSelected
                  /\ stoppedSessions' = result.stoppedSessions
        ELSE /\ calls' = <<>>
             /\ capSelected' = {}
             /\ stoppedSessions' = {}

\* SessionOrchestratorService.orchestrateSessionUpdate(sessionsData), run
\* once the poll interval has elapsed: device tracking, history update,
\* enforcement; each step catches its own errors and the method returns
orchestrateSessionUpdate(sessions, trackOk, historyOk, terminateMayFail) ==
  /\ Tick(<<"track", "history", "enforce">>, sessions, trackOk, historyOk,
          terminateMayFail)
  /\ outcome' = "returned"

\* a tick that goes on with its steps although the fetch failed
PlexServiceSteps_regardless(fetchOk) == <<"history", "track", "enforce">>

\* steps of PlexService.updateActiveSessions: when getActiveSessions throws
\* the error is logged and thrown again before any step has started;
\* otherwise history update, device tracking, enforcement
PlexServiceSteps(fetchOk) ==
  IF fetchOk THEN <<"history", "track", "enforce">> ELSE <<>>

\* PlexService.updateActiveSessions()
PlexService_updateActiveSessions(fetchOk, sessions, trackOk, historyOk, terminateMayFail) ==
  /\ Tick(PlexServiceSteps(fetchOk), sessions, trackOk, historyOk,
          terminateMayFail)
  /\ outcome' = IF fetchOk THEN "returned" ELSE "threw"

\* ticks over the playbacks s1 and s2; the history writer works
Next ==
  /\ ticks < MaxTicks
  /\ \E sessions \in OrderedSubsets({"s1", "s2"}) :
       orchestrateSessionUpdate(sessions, TRUE, TRUE, TRUE)

\* one tick over any playbacks; the history writer may fail
NextCap ==
  /\ ticks = 0
  /\ \E sessions \in OrderedSubsets(SessionIds) :
     \E historyOk \in BOOLEAN :
       orchestrateSessionUpdate(sessions, TRUE, historyOk, TRUE)

\* consecutive ticks over any playbacks; the history writer may fail
NextTicks ==
  /\ ticks < MaxTicks
  /\ \E sessions \in OrderedSubsets(SessionIds) :
     \E historyOk \in BOOLEAN :
       orchestrateSessionUpdate(sessions, TRUE, historyOk, TRUE)

\* consecutive ticks driven by either entry point; the fetch may fail
NextEntry ==
  /\ ticks < MaxTicks
  /\ \E sessions \in {<<"s1">>, <<"s1", "s2">>} :
       \/ orchestrateSessionUpdate(sessions, TRUE, TRUE, FALSE)
       \/ \E fetchOk \in BOOLEAN :
            PlexService_updateActiveSessions(fetchOk, sessions, TRUE, TRUE,
                                             FALSE)

\* one tick over the playbacks s1 and s2 in which any step may fail
NextFaults ==
  /\ ticks = 0
  /\ \E sessions \in OrderedSubsets({"s1", "s2"}) :
     \E trackOk \in BOOLEAN :
     \E historyOk \in BOOLEAN :
       orchestrateSessionUpdate(sessions, trackOk, historyOk, TRUE)

\* requests to the portal, their repository calls interleaved
NextPortal ==
  \E c \in CallIds :
    \/ \E plexUserId \in UserIds :
       \E deviceId \in {"d1", "d2"} :
       \E description \in {NoNote, NoteOf[c]} :
         requestDeviceApproval_findOne(c, plexUserId, deviceId, description)
    \/ requestDeviceApproval_getBooleanSetting(c)
    \/ requestDeviceApproval_update(c)

\* one tick over the playbacks s1 and s2; terminate calls may fail
NextIdentity ==
  /\ ticks = 0
  /\ \E sessions \in OrderedSubsets({"s1", "s2"}) :
       orchestrateSessionUpdate(sessions, TRUE, TRUE, TRUE)

\* consecutive ticks over the playbacks s1 and s2; terminate calls may fail
NextProduct ==
  /\ ticks < MaxTicks
  /\ \E sessions \in OrderedSubsets({"s1", "s2"}) :
       orchestrateSessionUpdate(sessions, TRUE, TRUE, TRUE)

\* registrations of callbacks, then ticks over the playbacks s1 and s2
NextEvents ==
  \/ \E callback \in CallbackIds : onStreamBlocked(callback)
  \/ /\ ticks < MaxTicks
     /\ \E sessions \in OrderedSubsets({"s1", "s2"}) :
          orchestrateSessionUpdate(sessions, TRUE, TRUE, TRUE)

\* requests for the concurrent-stream information of a user
NextInfo == \E userId \in UserIds : getConcurrentStreamInfo(userId)

\* create-admin requests, their repository calls interleaved
NextSetup ==
  \E c \in CallIds :
    \/ \E username \in {"alice", "bob"} :
       \E email \in {"alice@example.org", "bob@example.org"} :
       \E passwordsMatch \in BOOLEAN :
         createAdmin_controllerCheck(c, username, email, passwordsMatch)
    \/ createAdmin_serviceCheck(c)
    \/ createAdmin_save(c)

(***************************************************************************)
(* The global guard AuthGuard, and AuthController.plexLogin.               *)
(***************************************************************************)
\* what a request leaves alone
AuthUnchanged ==
  UNCHANGED <<sess, devices, settings, timeRules, history, snapshot, calls,
              capSelected, stoppedSessions, ticks, steps, outcome, readFault, serverIdentifierCache,
              serverIdentifierPromise, identityRequests,
              identifierCalls,
              capFault, requests, portalSettings, portalCalls,
              streamBlockedCallbacks, throwing, adminUsers, adminCalls>>

\* the user that validateSession hands to the guard: it carries the user
\* type of its session row
SessionUser(session) ==
  [userType |-> session.userType, id |-> session.userId,
   plexUserId |-> session.plexUserId]

\* AuthService.validateSession without the test of expiresAt
validateSession_neverExpires(token) ==
  LET found == {session \in authSessions : session.token = token}
  IN  IF found = {}
      THEN [user |-> NoSessionUser, sessions |-> authSessions]
      ELSE [user |-> SessionUser(CHOOSE session \in found : TRUE),
            sessions |-> authSessions]

\* AuthService.validateSession: the session of the token; an expired
\* session is removed and yields null.  The result is the user and the
\* session table as the call leaves it.
validateSession(token) ==
  LET found == {session \in authSessions : session.token = token}
  IN  IF found = {}
      THEN [user |-> NoSessionUser, sessions |-> authSessions]
      ELSE LET session == CHOOSE session \in found : TRUE
           IN  IF now > session.expiresAt
               THEN [user |-> NoSessionUser,
                     sessions |-> authSessions \ {session}]
               ELSE [user |-> SessionUser(session),
                     sessions |-> authSessions]

\* the guard refuses with an exception: req.user stays unset
Refused(status, sessions) ==
  [admitted |-> FALSE, status |-> status, user |-> NoSessionUser,
   sessions |-> sessions]

\* AuthGuard.canActivate for a request of a route with the cookie token
canActivate(route, token) ==
  IF route.method = "OPTIONS" \/ route.isPublic
  THEN [admitted |-> TRUE, status |-> 200, user |-> NoSessionUser,
        sessions |-> authSessions]
  ELSE IF token = NoToken
  THEN Refused(401, authSessions)
  ELSE LET valid == validateSession(token)
       IN  IF valid.user = NoSessionUser
           THEN Refused(401, valid.sessions)
           ELSE IF /\ valid.user.userType = "plex_user"
                   /\ portalSettings.USER_PORTAL_ENABLED # TRUE
           THEN Refused(403, valid.sessions)
           ELSE IF route.adminOnly /\ valid.user.userType # "admin"
           THEN Refused(403, valid.sessions)
           ELSE [admitted |-> TRUE, status |-> 200, user |-> valid.user,
                 sessions |-> valid.sessions]

\* what the body of a POST to a route of UsersController may hold
Bodies(route) ==
  IF route.path = "users/:userId/preference" THEN {"true"}
  ELSE IF route.path = "users/:userId/ip-policy" THEN {"lan"}
  ELSE IF route.path = "users/:userId/concurrent-stream-limit" THEN {1}
  ELSE {"none"}

\* the row that the service behind a POST route of UsersController leaves:
\* the row of the user is created when it is missing, then the column of
\* the route is written (hidden is not a column of the model)
UsersService_update(route, userId, body) ==
  LET row == IF prefs[userId].exists THEN prefs[userId]
             ELSE [NoPrefRow EXCEPT !.exists = TRUE]
  IN  IF route.path = "users/:userId/preference"
      THEN [row EXCEPT !.defaultBlock = body]
      ELSE IF route.path = "users/:userId/ip-policy"
      THEN [row EXCEPT !.networkPolicy = body]
      ELSE IF route.path = "users/:userId/concurrent-stream-limit"
      THEN [row EXCEPT !.concurrentStreamLimit = body]
      ELSE row

\* one request: the guard, then the handler of the route when the guard
\* admits the request
request(route, token, userId, body) ==
  LET decision == canActivate(route, token)
  IN  /\ authSessions' = decision.sessions
      /\ prefs' = IF decision.admitted /\ route \in UserPreferenceRoutes
                  THEN [prefs EXCEPT
                          ![userId] = UsersService_update(route, userId,
                                                          body)]
                  ELSE prefs
      /\ response' = [handler |-> "request", route |-> route,
                      admitted |-> decision.admitted,
                      status |-> decision.status, user |-> decision.user]
      /\ UNCHANGED now
      /\ AuthUnchanged

\* PlexOAuthService.getPlexUserFromToken: the account that plex.tv knows
\* for the token, or none (the call throws)
getPlexUserFromToken(authToken) ==
  IF authToken = "token-u1" THEN "u1"
  ELSE IF authToken = "token-u2" THEN "u2"
  ELSE NoPlexUser

\* AuthService.findAdminByPlexUserId: the administrators linked to the
\* Plex account
findAdminByPlexUserId(plexUserId) ==
  {admin \in adminUsers : admin.plexUserId = plexUserId}

\* every Plex account counts as a user of the server
isPlexUserOnServer_always(plexUserId) == TRUE

\* PlexOAuthService.isPlexUserOnServer: a UserPreference row exists
isPlexUserOnServer(plexUserId) == prefs[plexUserId].exists

\* AuthService.createAdminSessionByPlex
createAdminSessionByPlex(adminId) == createSession(adminId)

\* AuthService.createPlexUserSession
createPlexUserSession(plexUserId) ==
  SessionRecord(generateToken, "plex_user", NoUser, plexUserId,
                now + SessionExpiration)

\* plexLogin refuses with an exception: no session, no cookie
LoginRefused(status) ==
  [status |-> status, userType |-> "none", cookie |-> NoToken,
   sessions |-> authSessions]

\* plexLogin answers with the session it created and sets its cookie
LoggedIn(session) ==
  [status |-> 201, userType |-> session.userType, cookie |-> session.token,
   sessions |-> authSessions \cup {session}]

\* AuthController.plexLogin: the answer and the session table it leaves
plexLogin(authToken) ==
  IF authToken = NoAuthToken
  THEN LoginRefused(400)
  ELSE LET plexUserId == getPlexUserFromToken(authToken)
       IN  IF plexUserId = NoPlexUser
           THEN LoginRefused(400)
           ELSE IF findAdminByPlexUserId(plexUserId) # {}
           THEN LoggedIn(createAdminSessionByPlex(
                  (CHOOSE admin \in findAdminByPlexUserId(plexUserId) :
                     TRUE).id))
           ELSE IF ~isPlexUserOnServer(plexUserId)
           THEN LoginRefused(401)
           ELSE IF portalSettings.USER_PORTAL_ENABLED # TRUE
           THEN LoginRefused(401)
           ELSE LoggedIn(createPlexUserSession(plexUserId))

\* POST /auth/plex/login
postPlexLogin(authToken) ==
  LET answer == plexLogin(authToken)
  IN  /\ Cardinality(authSessions) < MaxSessions
      /\ authSessions' = answer.sessions
      /\ response' = [handler |-> "plexLogin", authToken |-> authToken,
                      status |-> answer.status,
                      userType |-> answer.userType,
                      cookie |-> answer.cookie]
      /\ UNCHANGED <<now, prefs>>
      /\ AuthUnchanged

\* the clock of the server advances
TimePasses ==
  /\ now < MaxNow
  /\ now' = now + 1
  /\ UNCHANGED <<prefs, authSessions, response>>
  /\ AuthUnchanged

\* logins with Plex, requests with any cookie, and the passing of time
NextAuth ==
  \/ \E authToken \in AuthTokens \cup {NoAuthToken} :
       postPlexLogin(authToken)
  \/ \E route \in AdminOnlyRoutes \cup OtherRoutes :
     \E token \in Tokens \cup {NoToken} :
     \E body \in Bodies(route) :
       request(route, token, "u1", body)
  \/ TimePasses

\* logins with Plex, and requests for the POST routes of UsersController
\* with any cookie
NextUsers ==
  \/ \E authToken \in AuthTokens \cup {NoAuthToken} :
       postPlexLogin(authToken)
  \/ \E route \in UserPreferenceRoutes :
     \E token \in Tokens \cup {NoToken} :
     \E body \in Bodies(route) :
       request(route, token, "u1", body)

(***************************************************************************)
(* PlexService.getServerIdentifier.  JavaScript runs the body of a call    *)
(* without interruption up to its return; the upstream request settles in  *)
(* a later step, which runs the then or the catch handler.                 *)
(***************************************************************************)
\* what a call of getServerIdentifier and its settlement leave alone
IdentityUnchanged ==
  UNCHANGED <<now, sess, devices, prefs, settings, timeRules, history,
              snapshot, calls, capSelected, stoppedSessions, ticks, steps,
              outcome, readFault, capFault, requests, portalSettings,
              portalCalls, streamBlockedCallbacks, throwing, adminUsers,
              authSessions, adminCalls, response>>

\* getServerIdentifier that does not look for a request in flight
identifierSource_alwaysFetch ==
  IF serverIdentifierCache # NullIdentifier THEN "cache" ELSE "fetch"

\* where getServerIdentifier takes its result from: the cache, the request
\* in flight, or a new upstream request
identifierSource ==
  IF serverIdentifierCache # NullIdentifier THEN "cache"
  ELSE IF serverIdentifierPromise # NoPromise THEN "promise"
  ELSE "fetch"

\* one call of getServerIdentifier, up to its return statement
getServerIdentifier(c) ==
  /\ identifierCalls[c].pc \in {"idle", "returned"}
  /\ identifierSource = "fetch" => Len(identityRequests) < MaxFetches
  /\ identityRequests' =
       IF identifierSource = "fetch"
       THEN Append(identityRequests, "pending") ELSE identityRequests
  /\ serverIdentifierPromise' =
       IF identifierSource = "fetch"
       THEN Len(identityRequests) + 1 ELSE serverIdentifierPromise
  /\ identifierCalls' =
       [identifierCalls EXCEPT
          ![c] = IF identifierSource = "cache"
                 THEN [pc |-> "returned", promise |-> NoPromise,
                       result |-> serverIdentifierCache]
                 ELSE [pc |-> "waiting",
                       promise |-> IF identifierSource = "fetch"
                                   THEN Len(identityRequests) + 1
                                   ELSE serverIdentifierPromise,
                       result |-> NullIdentifier]]
  /\ UNCHANGED serverIdentifierCache
  /\ IdentityUnchanged

\* the upstream request r settles: with an identifier or with null (the
\* then handler runs) or with an error (the catch handler runs); every
\* call that holds the promise receives its value
getServerIdentity_settles(r, settled, identifier) ==
  /\ r \in 1 .. Len(identityRequests)
  /\ identityRequests[r] = "pending"
  /\ settled = "rejected" => identifier = NullIdentifier
  /\ identityRequests' =
       [identityRequests EXCEPT
          ![r] = IF identifier = NullIdentifier THEN "failed"
                 ELSE "succeeded"]
  /\ serverIdentifierCache' =
       IF settled = "resolved" THEN identifier ELSE serverIdentifierCache
  /\ serverIdentifierPromise' = NoPromise
  /\ identifierCalls' =
       [c \in IdentifierCallers |->
          IF identifierCalls[c].pc = "waiting"
             /\ identifierCalls[c].promise = r
          THEN [pc |-> "returned", promise |-> r, result |-> identifier]
          ELSE identifierCalls[c]]
  /\ IdentityUnchanged

\* calls of getServerIdentifier from concurrent requests, and the
\* settlement of the upstream requests
NextServerIdentity ==
  \/ \E c \in IdentifierCallers : getServerIdentifier(c)
  \/ \E r \in 1 .. MaxFetches :
     \E settled \in {"resolved", "rejected"} :
     \E identifier \in {MachineIdentifier, NullIdentifier} :
       getServerIdentity_settles(r, settled, identifier)

Spec == Init /\ [][Next]_vars
SpecCap == InitCap /\ [][NextCap]_vars
SpecTicks == InitTicks /\ [][NextTicks]_vars
SpecEntry == InitEntry /\ [][NextEntry]_vars
SpecFaults == InitFaults /\ [][NextFaults]_vars
SpecPortal == InitPortal /\ [][NextPortal]_vars
SpecServerIdentity == InitServerIdentity /\ [][NextServerIdentity]_vars
SpecUsers == InitAuth /\ [][NextUsers]_vars
SpecAuth == InitAuth /\ [][NextAuth]_vars
SpecSetup == InitSetup /\ [][NextSetup]_vars
SpecInfo == InitInfo /\ [][NextInfo]_vars
SpecEvents == InitEvents /\ [][NextEvents]_vars
SpecProduct == InitProduct /\ [][NextProduct]_vars
SpecIdentity == InitIdentity /\ [][NextIdentity]_vars


(***************************************************************************)
(* Properties.                                                             *)
(***************************************************************************)
\* positions in calls of the upstream terminate calls for session s
TerminateCallsOf(s) ==
  {i \in 1..Len(calls) : calls[i].op = "terminate" /\ calls[i].session = s}

\* positions in calls of the stream_blocked events of session s
EventsOf(s) ==
  {i \in 1..Len(calls) : calls[i].op = "emit" /\ calls[i].session = s}

\* the device row of the playback s
DeviceOfSession(s) == findDevice(sess[s].userId, sess[s].machineIdentifier)

\* the device of s holds a temporary grant that is active at the last tick
HasActiveGrant(s) ==
  DeviceOfSession(s).exists /\ isTemporaryAccessValid(DeviceOfSession(s), now)

\* C1: within one tick the upstream terminate call is issued at most once
\* for any session id
C1_TerminateAtMostOnce ==
  \A s \in SessionIds : Cardinality(TerminateCallsOf(s)) <= 1

\* C2: every terminate call of a tick carries the reason, and every event
\* the stop code, of the first rule that blocks the session in the order
\* Plexamp, bypass grant, IP policy, time policy, device approval, cap; a
\* session that the Plexamp or the bypass rule allows is not terminated
C2_FirstBlockingRuleWins ==
  \A i \in 1..Len(calls) :
    LET s == calls[i].session
        decision == shouldStopSession(s, now)
    IN /\ sess[s].product # "Plexamp"
       /\ ~(HasActiveGrant(s) /\ DeviceOfSession(s).temporaryAccessBypassPolicies)
       /\ decision.shouldStop =>
            IF calls[i].op = "terminate"
            THEN calls[i].reason = decision.reason
            ELSE calls[i].stopCode = decision.stopCode

\* C3: a session whose device holds an active temporary grant with
\* bypass_policies is never terminated in a tick
C3_BypassGrantNeverTerminated ==
  \A s \in Range(snapshot) :
    (HasActiveGrant(s) /\ DeviceOfSession(s).temporaryAccessBypassPolicies)
    => TerminateCallsOf(s) = {}

\* the cap selection of the last snapshot once the sessions in drop are
\* removed from it (every session of the snapshot has a history row)
CapSelectionWithout(drop) ==
  Range(handleConcurrentStreamLimits(
          SeqSelect(snapshot, Range(snapshot) \ drop), history, now,
          [s \in SessionIds |-> 0], {}).picked)

\* C4: a session whose product is exactly "Plexamp" is never terminated and
\* never counted toward the cap: no terminate call is issued for it, the cap
\* does not select it, and the cap selects the same sessions as it does when
\* the Plexamp sessions are left out of the snapshot
C4_PlexampNeverTerminatedNorCounted ==
  LET plexamp == {s \in Range(snapshot) : sess[s].product = "Plexamp"}
  IN /\ \A s \in plexamp : TerminateCallsOf(s) = {} /\ s \notin capSelected
     /\ capSelected = CapSelectionWithout(plexamp)

\* a Plexamp session on a rejected device was in the snapshot of a tick
\* together with another session of a user whose limit is 1
C4_Witness ==
  /\ ticks > 0
  /\ Range(snapshot) = {"s1", "s2"}
  /\ sess["s1"].product = "Plexamp"
  /\ devices["d1"].status = "rejected"
  /\ ~devices["d1"].excludeFromConcurrentLimit
  /\ settings.CONCURRENT_STREAM_LIMIT = 1

\* sessions of the last snapshot that count toward the cap of user u
CountedSessions(u) ==
  {s \in Range(snapshot) : /\ sess[s].userId = u
                           /\ sess[s].product # "Plexamp"
                           /\ CountableSession(u, s, now)}

\* sessions of user u that the cap selected in the last tick
SelectedOf(u) == {s \in capSelected : sess[s].userId = u}

\* C5: for a user with limit L > 0 and N countable sessions the cap selects
\* none of them when N <= L and exactly N - L of them when N > L, whatever
\* the outcome of the terminate calls
C5_CapSelectsExcess ==
  \A u \in UserIds :
    LET L == getEffectiveLimit(u)
        N == Cardinality(CountedSessions(u))
    IN L > 0 =>
         /\ SelectedOf(u) \subseteq CountedSessions(u)
         /\ Cardinality(SelectedOf(u)) = IF N > L THEN N - L ELSE 0

\* a user was over the limit in a tick and a terminate call of the cap failed
C5_Witness ==
  /\ \E u \in UserIds :
       /\ getEffectiveLimit(u) > 0
       /\ Cardinality(CountedSessions(u)) > getEffectiveLimit(u)
  /\ \E i \in 1..Len(calls) :
       /\ calls[i].op = "terminate"
       /\ calls[i].reason = "MSG_CONCURRENT_LIMIT"
       /\ ~calls[i].ok

\* position of a session key in lexicographic order
SessionKeyRank(s) == CASE s = "s1" -> 1 [] s = "s2" -> 2 [] s = "s3" -> 3

\* C6: the sessions the cap selects are the newest by started_at, ties
\* broken by session_key in lexicographic order: every selected session with
\* a history row precedes, in that order, every countable session of the
\* same user with a history row that is not selected
C6_NewestByStartThenKey ==
  \A u \in UserIds :
    \A s \in SelectedOf(u) :
      \A t \in CountedSessions(u) \ SelectedOf(u) :
        (history[s] # NoTime /\ history[t] # NoTime) =>
          \/ history[s] > history[t]
          \/ /\ history[s] = history[t]
             /\ SessionKeyRank(s) < SessionKeyRank(t)

\* C7: a session that was countable and not selected in one tick is not
\* selected in the next tick when the sessions selected before are gone and
\* every other session of the snapshot is either one that was kept or one
\* that was not there before
C7_KeptSessionStaysKept ==
  [][\A s \in SessionIds :
       (/\ ticks >= 1
        /\ ticks' = ticks + 1
        /\ s \in Range(snapshot)
        /\ s \in Range(snapshot')
        /\ getEffectiveLimit(sess[s].userId) > 0
        /\ CountableSession(sess[s].userId, s, now)
        /\ CountableSession(sess[s].userId, s, now')
        /\ s \notin capSelected
        /\ capSelected \cap Range(snapshot') = {})
       => s \notin capSelected']_vars

\* the orders in which an upstream snapshot can list the same sessions
Reorderings(sessions) ==
  {p \in OrderedSubsets(Range(sessions)) : Range(p) = Range(sessions)}

\* sessions terminated in a run, each with the stop code of its event
TerminatedWithCodes(callSeq) ==
  {<<callSeq[i].session, callSeq[i].stopCode>> :
     i \in {j \in 1..Len(callSeq) : callSeq[j].op = "emit"}}

\* C8: a run of the tick over the same snapshot contents, tables and current
\* time terminates the same sessions with the same stop codes whatever the
\* order of the snapshot and the instants at which sessions are examined
\* (runs in which every terminate call succeeds)
C8_Deterministic ==
  (\A i \in 1..Len(calls) : calls[i].ok) =>
    \A p \in Reorderings(snapshot) :
      \A reads \in ClockReads(p, history) :
        TerminatedWithCodes(
          stopUnapprovedSessions(p, history, now, reads, {}, {}).calls)
        = TerminatedWithCodes(calls)

\* C9: a session on a rejected device, or on a pending device under
\* default-block, that passes the IP and time rules is not terminated while
\* the device's temporary grant is active (until > now), and a terminate call
\* with the device-approval reason is issued for it in a tick after expiry
C9_GrantAllowsUntilExpiry ==
  \A s \in Range(snapshot) :
    LET device == DeviceOfSession(s)
        userId == sess[s].userId
        blocking ==
          \/ device.status = "rejected"
          \/ device.status = "pending" /\ getEffectiveDefaultBlock(userId)
        reason == IF device.status = "rejected"
                  THEN "MSG_DEVICE_REJECTED" ELSE "MSG_DEVICE_PENDING"
    IN (/\ device.exists
        /\ blocking
        /\ device.temporaryAccessUntil # NoTime
        /\ sess[s].product # "Plexamp"
        /\ validateIPAccess(s).allowed
        /\ isTimeScheduleAllowed(userId, sess[s].machineIdentifier, now))
       => IF device.temporaryAccessUntil > now
          THEN TerminateCallsOf(s) = {}
          ELSE \E i \in TerminateCallsOf(s) : calls[i].reason = reason

\* C11: a non-Plexamp session on a pending device, or on a device without a
\* registry row, that has no active temporary grant and passes the IP and
\* time rules gets a terminate call with the DEVICE_PENDING reason iff the
\* effective default block (the user's default_block when it is non-null,
\* the global PLEX_GUARD_DEFAULT_BLOCK otherwise) is true
C11_PendingFollowsDefaultBlock ==
  \A s \in Range(snapshot) :
    LET device == DeviceOfSession(s)
        userId == sess[s].userId
        effectiveDefaultBlock ==
          IF prefs[userId].exists /\ prefs[userId].defaultBlock # "null"
          THEN prefs[userId].defaultBlock = "true"
          ELSE settings.PLEX_GUARD_DEFAULT_BLOCK
    IN (/\ sess[s].product # "Plexamp"
        /\ (~device.exists \/ device.status = "pending")
        /\ ~HasActiveGrant(s)
        /\ validateIPAccess(s).allowed
        /\ isTimeScheduleAllowed(userId, sess[s].machineIdentifier, now))
       => ((\E i \in TerminateCallsOf(s) :
              calls[i].reason = "MSG_DEVICE_PENDING")
           <=> effectiveDefaultBlock)

\* C12: a non-Plexamp session on a device with an active temporary grant
\* without bypass_policies that violates the IP policy gets a terminate call
\* with the reason of the IP rule, and one that passes the IP policy inside
\* an enabled time block window gets one with the TIME_RESTRICTED reason,
\* whatever the device status
C12_GrantDoesNotExemptFromIPAndTime ==
  \A s \in Range(snapshot) :
    LET userId == sess[s].userId
        ipValidation == validateIPAccess(s)
    IN (/\ sess[s].product # "Plexamp"
        /\ HasActiveGrant(s)
        /\ ~DeviceOfSession(s).temporaryAccessBypassPolicies)
       => /\ ~ipValidation.allowed =>
               \E i \in TerminateCallsOf(s) :
                 calls[i].reason = ipValidation.reason
          /\ (/\ ipValidation.allowed
              /\ ~isTimeScheduleAllowed(userId, sess[s].machineIdentifier, now))
             => \E i \in TerminateCallsOf(s) :
                  calls[i].reason = "MSG_TIME_RESTRICTED"

\* sessions that received a terminate call with the concurrent-limit reason
CapTerminated ==
  {calls[i].session :
     i \in {j \in 1..Len(calls) : /\ calls[j].op = "terminate"
                                  /\ calls[j].reason = "MSG_CONCURRENT_LIMIT"}}

\* C13: the effective limit of a user is the user's concurrent_stream_limit
\* when it is non-null and the global CONCURRENT_STREAM_LIMIT otherwise; with
\* an effective limit of 0 no session of the user is selected or terminated
\* with CONCURRENT_LIMIT, and with a positive one a user with more countable
\* sessions than the limit has sessions selected
C13_EffectiveLimit ==
  \A u \in UserIds :
    LET L == IF prefs[u].exists /\ prefs[u].concurrentStreamLimit # NullLimit
             THEN prefs[u].concurrentStreamLimit
             ELSE settings.CONCURRENT_STREAM_LIMIT
    IN /\ L = 0 =>
            \A s \in SessionIds :
              sess[s].userId = u => s \notin capSelected \cup CapTerminated
       /\ (L > 0 /\ Cardinality(CountedSessions(u)) > L) =>
            Cardinality(SelectedOf(u)) = Cardinality(CountedSessions(u)) - L

\* a user whose own limit of 0 lifts a positive global limit had two
\* sessions in a tick
C13_Witness ==
  /\ ticks > 0
  /\ prefs["u1"].concurrentStreamLimit = 0
  /\ settings.CONCURRENT_STREAM_LIMIT = 1
  /\ Cardinality(CountedSessions("u1")) >= 2

\* position in steps of the step named name, 0 when the tick did not start it
StepIndex(name) ==
  IF \E i \in 1..Len(steps) : steps[i].step = name
  THEN CHOOSE i \in 1..Len(steps) : steps[i].step = name
  ELSE 0

\* C14: in every tick, whichever entry point drives it, device tracking is
\* done before the history update starts and the history update before
\* enforcement starts
C14_TrackHistoryEnforce ==
  steps # <<>> =>
    /\ 0 < StepIndex("track")
    /\ StepIndex("track") < StepIndex("history")
    /\ StepIndex("history") < StepIndex("enforce")

CapStopped ==
  {calls[i].session :
     i \in {j \in 1..Len(calls) : /\ calls[j].op = "terminate"
                                  /\ calls[j].reason = "MSG_CONCURRENT_LIMIT"
                                  /\ calls[j].ok}}

\* C16: whatever fails in a tick (a terminate call, the evaluation of one
\* session, the cap check of one user, the device-tracking or the history
\* step), orchestrateSessionUpdate returns normally after all three steps,
\* every user whose cap check did not fail has the excess sessions selected
\* and a terminate call issued for each of them, and every session whose own
\* evaluation did not fail and that the cap did not stop gets a terminate
\* call with the reason of the rule that blocks it
C16_FailuresAreConfined ==
  ticks > 0 =>
    /\ outcome = "returned"
    /\ Len(steps) = 3
    /\ \A u \in UserIds \ capFault :
         LET L == getEffectiveLimit(u)
             N == Cardinality(CountedSessions(u))
         IN L > 0 =>
              /\ Cardinality(SelectedOf(u)) = IF N > L THEN N - L ELSE 0
              /\ \A s \in SelectedOf(u) :
                   sess[s].hasSessionId => s \in CapTerminated
    /\ \A s \in Range(snapshot) \ CapStopped :
         LET decision == shouldStopSessionWith(s, now, "none")
         IN (/\ readFault[s] = "none"
             /\ sess[s].hasSessionId
             /\ decision.shouldStop)
            => \E i \in TerminateCallsOf(s) :
                 calls[i].reason = decision.reason

\* device tracking and the history update failed, a terminate call failed
\* for one session, and another session was terminated in the same tick
C16_Witness ==
  /\ Len(steps) = 3
  /\ ~steps[1].ok
  /\ ~steps[2].ok
  /\ \E i \in 1..Len(calls) :
       /\ calls[i].op = "terminate"
       /\ ~calls[i].ok
       /\ \E j \in 1..Len(calls) :
            /\ j > i
            /\ calls[j].op = "emit"
            /\ calls[j].session # calls[i].session

\* C17: a session during whose evaluation the read of the device, of the
\* user preference, of the time rules or of a setting raises an error gets
\* no terminate call from the per-session pass of that tick
C17_FailOpen ==
  \A s \in Range(snapshot) :
    readFault[s] # "none" =>
      \A i \in TerminateCallsOf(s) : calls[i].reason = "MSG_CONCURRENT_LIMIT"

\* C18: once a note was submitted for a device, a requestDeviceApproval call
\* that starts later is refused with an error and leaves the note and its
\* submission time as they are
C18_NoteOneShot ==
  [][\A c \in CallIds :
       (/\ portalCalls[c].pc = "idle"
        /\ portalCalls'[c].pc # "idle"
        /\ requests[portalCalls'[c].deviceId].requestSubmittedAt # NoTime)
       => /\ portalCalls'[c].pc = "threw"
          /\ \A e \in CallIds \ {c} : portalCalls'[e] = portalCalls[e]
          /\ requests' = requests]_vars

\* a call returned for a device and a later call of its owner for the same
\* device was refused because a note had been submitted
C18_Witness ==
  \E c \in CallIds :
    \E e \in CallIds \ {c} :
      /\ portalCalls[c].pc = "returned"
      /\ portalCalls[e].pc = "threw"
      /\ portalCalls[e].deviceId = portalCalls[c].deviceId
      /\ portalCalls[e].error =
           "A note has already been submitted for this device"
      /\ requests[portalCalls[c].deviceId].requestDescription =
           DescriptionOrEmpty(portalCalls[c].description)

\* C19: of two requestDeviceApproval calls for the same device whose reads
\* and writes interleave, at most one returns successfully
C19_AtMostOneSubmission ==
  \A d \in DeviceIds :
    Cardinality({c \in CallIds : /\ portalCalls[c].pc = "returned"
                                 /\ portalCalls[c].deviceId = d}) <= 1

\* sessions of the last snapshot whose device is excluded from the limit or,
\* when temp-access devices are not counted, holds an active temporary grant
ExemptFromCap ==
  {s \in Range(snapshot) :
     LET device == DeviceOfSession(s)
     IN /\ device.exists
        /\ \/ device.excludeFromConcurrentLimit
           \/ /\ ~settings.CONCURRENT_LIMIT_INCLUDE_TEMP_ACCESS
              /\ HasActiveGrant(s)}

\* C20: a session whose device has exclude_from_concurrent_limit set or,
\* when CONCURRENT_LIMIT_INCLUDE_TEMP_ACCESS is false, an active temporary
\* grant is neither selected by the cap nor terminated with CONCURRENT_LIMIT,
\* and the cap selects what it selects when these sessions are left out of
\* the snapshot; every other non-Plexamp session, those on temp-access
\* devices included, is counted: a user with limit L > 0 and N such sessions
\* has N - L sessions selected when N > L and none otherwise
C20_ExemptSessionsNotCounted ==
  /\ ExemptFromCap \cap (capSelected \cup CapTerminated) = {}
  /\ capSelected = CapSelectionWithout(ExemptFromCap)
  /\ \A u \in UserIds :
       LET L == getEffectiveLimit(u)
           N == Cardinality({s \in Range(snapshot) \ ExemptFromCap :
                               /\ sess[s].userId = u
                               /\ sess[s].product # "Plexamp"})
       IN L > 0 => Cardinality(SelectedOf(u)) = IF N > L THEN N - L ELSE 0

\* a user with limit 1 had two sessions in a tick, one of them on an
\* excluded device
C20_Witness ==
  /\ ticks > 0
  /\ Range(snapshot) = {"s1", "s2"}
  /\ sess["s1"].product # "Plexamp"
  /\ devices["d1"].excludeFromConcurrentLimit
  /\ settings.CONCURRENT_STREAM_LIMIT = 1

\* stop code that goes with a reason text
StopCodeOfReason(reason) ==
  CASE reason = "MSG_CONCURRENT_LIMIT" -> "CONCURRENT_LIMIT"
    [] reason = "MSG_IP_LAN_ONLY" -> "LAN_ONLY"
    [] reason = "MSG_IP_WAN_ONLY" -> "WAN_ONLY"
    [] reason = "MSG_IP_NOT_ALLOWED" -> "IP_NOT_ALLOWED"
    [] reason = "MSG_TIME_RESTRICTED" -> "TIME_RESTRICTED"
    [] reason = "MSG_DEVICE_PENDING" -> "DEVICE_PENDING"
    [] reason = "MSG_DEVICE_REJECTED" -> "DEVICE_REJECTED"
    [] OTHER -> ""

\* C10: a stream_blocked event is emitted for a session iff the terminate
\* call for it returned successfully in that tick, once per successful call,
\* right after the call, with the stop code of the blocking rule; a failed
\* call emits nothing
C10_EventIffTerminated ==
  /\ \A i \in 1..Len(calls) :
       calls[i].op = "emit" =>
         /\ i > 1
         /\ calls[i - 1].op = "terminate"
         /\ calls[i - 1].ok
         /\ calls[i - 1].session = calls[i].session
         /\ calls[i].stopCode = StopCodeOfReason(calls[i - 1].reason)
  /\ \A i \in 1..Len(calls) :
       (calls[i].op = "terminate" /\ calls[i].ok) =>
         /\ i < Len(calls)
         /\ calls[i + 1].op = "emit"
         /\ calls[i + 1].session = calls[i].session
  /\ \A s \in SessionIds :
       /\ Cardinality(EventsOf(s)) =
            Cardinality({i \in TerminateCallsOf(s) : calls[i].ok})
       /\ (EventsOf(s) # {}) = (s \in stoppedSessions)

\* a tick in which one terminate call failed and another one succeeded
C10_Witness ==
  /\ \E i \in 1..Len(calls) : calls[i].op = "terminate" /\ ~calls[i].ok
  /\ \E i \in 1..Len(calls) : calls[i].op = "emit"

\* sessions of the last snapshot for which a terminate call succeeded
Terminated ==
  {calls[i].session :
     i \in {j \in 1..Len(calls) : calls[j].op = "terminate" /\ calls[j].ok}}

\* C27: after a tick in which every terminate call succeeded, each user with
\* effective limit L > 0 has at most L countable sessions of the snapshot
\* left unterminated
C27_AtMostLimitLeft ==
  (\A i \in 1..Len(calls) : calls[i].op = "terminate" => calls[i].ok)
  => \A u \in UserIds :
       getEffectiveLimit(u) > 0 =>
         Cardinality(CountedSessions(u) \ Terminated) <= getEffectiveLimit(u)

\* C28: a non-Plexamp session with a user id and a machine identifier but
\* no player address, on a device without active bypass grant, gets a
\* terminate call with the reason 'Invalid or missing client IP address from
\* Plex' and no other, and its event carries no stop code; a session with
\* no user id or no machine identifier gets no terminate call
C28_MissingAddressTerminated ==
  \A s \in Range(snapshot) :
    /\ (/\ sess[s].userId # NoUser
        /\ sess[s].machineIdentifier # NoMachine
        /\ sess[s].product # "Plexamp"
        /\ sess[s].address = NoAddress
        /\ ~(HasActiveGrant(s)
             /\ DeviceOfSession(s).temporaryAccessBypassPolicies))
       => /\ TerminateCallsOf(s) # {}
          /\ \A i \in TerminateCallsOf(s) :
               calls[i].reason =
                 "Invalid or missing client IP address from Plex"
          /\ \A i \in EventsOf(s) : calls[i].stopCode = ""
    /\ (sess[s].userId = NoUser \/ sess[s].machineIdentifier = NoMachine)
       => TerminateCallsOf(s) = {}

\* C26: a device whose stored status is pending or rejected and that
\* getUserDevices reports as approved because of its product is one whose
\* sessions the enforcement treats as Plexamp: they get no terminate call
\* for device approval and the cap neither counts nor selects them
C26_PortalAndEnforcementAgree ==
  \A s \in Range(snapshot) :
    LET device == DeviceOfSession(s)
    IN (/\ device.exists
        /\ device.status \in {"pending", "rejected"}
        /\ effectiveStatus(sess[s].machineIdentifier) = "approved")
       => /\ isPlexampSession(s)
          /\ \A i \in TerminateCallsOf(s) :
               calls[i].reason \notin {"MSG_DEVICE_PENDING",
                                       "MSG_DEVICE_REJECTED"}
          /\ s \notin capSelected
          /\ s \notin CountedSessions(sess[s].userId)

\* C25: each stream_blocked event is followed at once, before anything
\* else the tick does, by its delivery to every registered callback in
\* registration order, whether or not callbacks throw; the tick goes on (it
\* returns, and every session that a rule blocks and the cap did not stop
\* gets its terminate call), and the session of the event is reported as
\* stopped after a terminate call that succeeded
C25_EventDeliveredToEveryCallback ==
  LET n == Len(streamBlockedCallbacks)
  IN /\ \A i \in 1..Len(calls) :
          calls[i].op = "emit" =>
            /\ i + n <= Len(calls)
            /\ \A k \in 1..n :
                 /\ calls[i + k].op = "deliver"
                 /\ calls[i + k].callback = streamBlockedCallbacks[k]
                 /\ calls[i + k].session = calls[i].session
                 /\ calls[i + k].stopCode = calls[i].stopCode
            /\ calls[i].session \in stoppedSessions
            /\ calls[i - 1].op = "terminate"
            /\ calls[i - 1].session = calls[i].session
            /\ calls[i - 1].ok
     /\ ticks > 0 =>
          /\ outcome = "returned"
          /\ \A s \in Range(snapshot) \ CapStopped :
               shouldStopSession(s, now).shouldStop
               => \E j \in TerminateCallsOf(s) :
                    calls[j].reason = shouldStopSession(s, now).reason

\* the first of two registered callbacks threw on the event of one session
\* and a later session of the same tick was terminated and its event
\* delivered
C25_Witness ==
  /\ Len(streamBlockedCallbacks) = 2
  /\ \E i \in 1..Len(calls) :
       /\ calls[i].op = "deliver"
       /\ calls[i].callback = streamBlockedCallbacks[1]
       /\ ~calls[i].ok
       /\ \E j \in 1..Len(calls) :
            /\ j > i
            /\ calls[j].op = "deliver"
            /\ calls[j].session # calls[i].session

\* C30: the concurrent-stream information of a user reports isOverridden
\* exactly when the user has a preference row with a non-null limit, reports
\* a null limit exactly when it reports no override, and reports isUnlimited
\* exactly when the effective limit (the per-user limit, else the global
\* one) is 0
C30_ConcurrentStreamInfo ==
  response.handler = "getConcurrentStreamInfo" =>
    LET row == prefs[response.userId]
        hasLimit == row.exists /\ row.concurrentStreamLimit # NullLimit
        effective == IF hasLimit THEN row.concurrentStreamLimit
                     ELSE settings.CONCURRENT_STREAM_LIMIT
    IN /\ response.isOverridden <=> hasLimit
       /\ (response.limit = NullLimit) <=> ~response.isOverridden
       /\ response.isUnlimited <=> (effective = 0)

\* C23: after any create-admin requests, concurrent ones with different
\* usernames and emails included, at most one administrator was created,
\* and every other request whose passwords match was refused with 'Admin
\* user already exists'
C23_AtMostOneAdminCreated ==
  /\ Cardinality(adminUsers) <= 1
  /\ Cardinality({c \in CallIds : adminCalls[c].pc = "returned"}) <= 1
  /\ \A c \in CallIds :
       (adminCalls[c].pc = "threw" /\ adminCalls[c].passwordsMatch)
       => adminCalls[c].error = "Admin user already exists"

C21_PlexLoginSessions ==
  \A authToken \in AuthTokens \cup {NoAuthToken} :
    LET answer == plexLogin(authToken)
        created == answer.sessions \ authSessions
        plexUserId == getPlexUserFromToken(authToken)
        linked == \E admin \in adminUsers :
                    plexUserId # NoPlexUser /\ admin.plexUserId = plexUserId
    IN  /\ (~linked /\ created # {}) =>
             /\ prefs[plexUserId].exists
             /\ portalSettings.USER_PORTAL_ENABLED
             /\ \A session \in created :
                  /\ session.userType = "plex_user"
                  /\ session.plexUserId = plexUserId
                  /\ answer.cookie = session.token
        /\ linked =>
             /\ answer.status = 201
             /\ \E session \in created :
                  /\ created = {session}
                  /\ session.userType = "admin"
                  /\ answer.cookie = session.token
        /\ answer.status # 201 =>
             created = {} /\ answer.cookie = NoToken

\* a Plex account without administrator has logged in and holds a
\* plex_user session
C21_Witness ==
  /\ response.handler = "plexLogin"
  /\ response.status = 201
  /\ response.userType = "plex_user"
  /\ \E session \in authSessions :
       session.token = response.cookie /\ session.userType = "plex_user"

\* C24: in every step, (1) at most one upstream identity request is in
\* flight, and a call that waits, waits for that request; (2) once a request
\* succeeded its identifier is cached, every call that held the request
\* returned the identifier, and no further upstream request is issued;
\* (3) while no request succeeded nothing is cached, the calls that held a
\* failed request returned null, and a call that finds no request in flight
\* issues a new one.
C24_IdentityFetchedOnceAndCached ==
  [][LET pending(reqs) == {r \in 1 .. Len(reqs) : reqs[r] = "pending"}
         succeeded(reqs) == {r \in 1 .. Len(reqs) : reqs[r] = "succeeded"}
     IN  /\ Cardinality(pending(identityRequests')) <= 1
         /\ \A c \in IdentifierCallers :
              identifierCalls'[c].pc = "waiting" =>
                /\ identifierCalls'[c].promise = serverIdentifierPromise'
                /\ pending(identityRequests')
                     = {identifierCalls'[c].promise}
         /\ succeeded(identityRequests') # {} =>
              serverIdentifierCache' = MachineIdentifier
         /\ succeeded(identityRequests) # {} =>
              identityRequests' = identityRequests
         /\ \A c \in IdentifierCallers :
              (identifierCalls'[c].pc = "returned"
               /\ identifierCalls'[c].promise # NoPromise) =>
                identifierCalls'[c].result =
                  IF identityRequests'[identifierCalls'[c].promise]
                       = "succeeded"
                  THEN MachineIdentifier ELSE NullIdentifier
         /\ succeeded(identityRequests') = {} =>
              serverIdentifierCache' = NullIdentifier
         /\ \A c \in IdentifierCallers :
              (/\ identifierCalls[c].pc # "waiting"
               /\ identifierCalls'[c].pc = "waiting"
               /\ pending(identityRequests) = {}) =>
                /\ Len(identityRequests') = Len(identityRequests) + 1
                /\ identifierCalls'[c].promise = Len(identityRequests')
    ]_vars

\* a first fetch failed, a second one succeeded while both calls shared it,
\* and a later call was answered from the cache
C24_Witness ==
  /\ Len(identityRequests) = 2
  /\ identityRequests[1] = "failed"
  /\ identityRequests[2] = "succeeded"
  /\ \E c \in IdentifierCallers :
       /\ identifierCalls[c].pc = "returned"
       /\ identifierCalls[c].promise = NoPromise
       /\ identifierCalls[c].result = MachineIdentifier

====
